---------------------------- MODULE Spec2Model ----------------------------
(***************************************************************************)
(* AquaSeal watermarking engine (src/backend/app).                         *)
(*                                                                         *)
(* One module, one group of variables per subsystem, one specification per *)
(* subsystem.  A specification leaves the variables of the other           *)
(* subsystems at their idle value.                                         *)
(*                                                                         *)
(*   SpecHash   core/hashing/watermark_hash.py                             *)
(***************************************************************************)
EXTENDS Integers, Sequences, FiniteSets, TLC

VARIABLES
    cur_hash,      \* result of the latest generate_watermark_hash call
    prev_hash,     \* result of the call before it
    png_image,     \* the PIL image handed to MetadataWatermarker (PNG)
    png_data,      \* watermark_data handed to MetadataWatermarker.embed
    png_out,       \* bytes returned by _embed_png_metadata
    png_extracted, \* result of MetadataWatermarker.extract on png_out
    ade_available, \* librosa, soundfile and scipy could be imported
    audio_in,      \* the audio file handed to embed_watermark
    ade_call,      \* what embed_watermark computed: payload bytes, watermark hash
    audio_out,     \* result of embed_watermark on audio_in
    ade_result,    \* result of extract_watermark on the embedded file
    libs,          \* the optional libraries that can be imported
    slots,         \* WatermarkService: the lazily initialised codec slots
    file_in,       \* the caller's file: type, extension, image format
    reader,        \* the caller's seekable reader: length and position
    call,          \* the engine call made on it, with its outcome
    iw_installed,  \* the invisible-watermark library can be imported
    iw_slot,       \* WatermarkService._image_watermarker of the shared service
    encoders,      \* the WatermarkEncoder of each InvisibleWatermarker made
    threads,       \* the embed call each thread runs: position and locals
    mp3_in,        \* arguments of MP3MetadataWatermarker.embed and what fails
    mp3_pc,        \* position inside MP3MetadataWatermarker.embed
    mp3_tmp,       \* the temporary file on disk
    mp3_local,     \* locals of the call: pending exception, tags, bytes read
    mp3_result,    \* what the call returned or raised
    mp3_extracted, \* MP3MetadataWatermarker.extract on the returned file
    pdf_in,        \* arguments of PDFWatermarker.embed and its environment
    pdf_out,       \* what PDFWatermarker.embed returned or raised
    pdf_extracted, \* PDFWatermarker.extract on the returned file
    exif_in,       \* the JPEG or TIFF image handed to MetadataWatermarker.embed, and the payload
    exif_out,      \* what MetadataWatermarker.embed returned
    exif_extracted,\* MetadataWatermarker.extract on the returned file
    dct_in,        \* the samples and the frame bits handed to AudioWatermarker._embed_in_dct
    dct_out,       \* what _embed_in_dct returned or raised
    qim_in,        \* a DCT coefficient and the bit to put into it
    qim_mod,       \* the coefficient after the modulation of _embed_in_dct
    qim_bit,       \* the bit _extract_from_dct reads from the modulated coefficient
    chunks_in,     \* a PNG whose tEXt chunks WMHash, WMHash1, ... carry the pieces of a payload
    chunks_result, \* MetadataWatermarker.extract on that PNG
    sync_in,       \* the bits handed to AudioWatermarker._find_sync_pattern
    sync_out       \* the positions it returned

hashVars == <<cur_hash, prev_hash>>
pngVars == <<png_image, png_data, png_out, png_extracted>>
adeVars == <<ade_available, audio_in, ade_call, audio_out, ade_result>>

engineVars == <<libs, slots, file_in, reader, call>>

parVars == <<iw_installed, iw_slot, encoders, threads>>

mp3Vars == <<mp3_in, mp3_pc, mp3_tmp, mp3_local, mp3_result, mp3_extracted>>

pdfVars == <<pdf_in, pdf_out, pdf_extracted>>

exifVars == <<exif_in, exif_out, exif_extracted>>

dctVars == <<dct_in, dct_out>>

qimVars == <<qim_in, qim_mod, qim_bit>>

chunkVars == <<chunks_in, chunks_result>>

syncVars == <<sync_in, sync_out>>

vars == <<hashVars, pngVars, adeVars, engineVars, parVars, mp3Vars, pdfVars, exifVars, dctVars, qimVars, chunkVars, syncVars>>

None == [none |-> TRUE]

(***************************************************************************)
(* Generic helpers on sequences.                                           *)
(***************************************************************************)
Range(s) == {s[i] : i \in DOMAIN s}

\* The sequence a function on 1..n denotes, with its elements evaluated.
AsSeq(f) == f \o <<>>

\* ss[lo] \o ... \o ss[hi]
RECURSIVE FlattenRange(_, _, _)
FlattenRange(ss, lo, hi) ==
    IF lo > hi THEN <<>>
    ELSE IF lo = hi THEN ss[lo]
    ELSE LET mid == (lo + hi) \div 2
         IN  AsSeq(FlattenRange(ss, lo, mid) \o FlattenRange(ss, mid + 1, hi))

Flatten(ss) == FlattenRange(ss, 1, Len(ss))

\* s[a:b] of Python (0-based, end exclusive, clipped to the length)
Slice(s, a, b) ==
    LET hi == IF b > Len(s) THEN Len(s) ELSE b
    IN  IF a >= hi THEN <<>> ELSE AsSeq([i \in 1..(hi - a) |-> s[a + i]])

(***************************************************************************)
(* ------------------------ bits and bytes ------------------------------ *)
(* A byte is a number in 0..255, a bit string a sequence over {0, 1}, most *)
(* significant bit first (numpy unpackbits / packbits, int.to_bytes 'big').*)
(***************************************************************************)
Byte == 0..255

Pow2(n) == CASE n = 0 -> 1 [] n = 1 -> 2 [] n = 2 -> 4 [] n = 3 -> 8
             [] n = 4 -> 16 [] n = 5 -> 32 [] n = 6 -> 64 [] n = 7 -> 128

ByteBits(b) == AsSeq([i \in 1..8 |-> (b \div Pow2(8 - i)) % 2])

BitsByte(bs) ==
    bs[1] * 128 + bs[2] * 64 + bs[3] * 32 + bs[4] * 16
    + bs[5] * 8 + bs[6] * 4 + bs[7] * 2 + bs[8]

\* np.unpackbits(np.frombuffer(data, dtype=np.uint8))
UnpackBits(bytes) ==
    AsSeq([i \in 1..(8 * Len(bytes)) |->
              (bytes[((i - 1) \div 8) + 1] \div Pow2(7 - ((i - 1) % 8))) % 2])

\* np.packbits(bits).tobytes(): the last byte is zero padded on the right.
PackBits(bits) ==
    LET n == (Len(bits) + 7) \div 8
        bit(i) == IF i <= Len(bits) THEN bits[i] ELSE 0
    IN  AsSeq([k \in 1..n |-> BitsByte([j \in 1..8 |-> bit(8 * (k - 1) + j)])])

\* n.to_bytes(4, 'big') for 0 <= n < 2^31
U32BE(n) ==
    << n \div 16777216, (n \div 65536) % 256, (n \div 256) % 256, n % 256 >>

\* Every length of 2^30 or more reads as HugeLength: no byte string of the
\* model is that long, and all the code does with a length is add it to a
\* position and compare with the length of the file.
HugeLength == 1073741824

\* int.from_bytes(b, 'big') of four bytes
FromU32BE(b) ==
    IF b[1] >= 64 THEN HugeLength
    ELSE b[1] * 16777216 + b[2] * 65536 + b[3] * 256 + b[4]

XorBits(a, b) == AsSeq([i \in DOMAIN a |-> (a[i] + b[i]) % 2])

\* The reflected CRC-32 polynomial 0xEDB88320, as 32 bits.
CrcPoly == UnpackBits(<<237, 184, 131, 32>>)

Ones32 == AsSeq([i \in 1..32 |-> 1])

\* One bit step of the reflected CRC-32: shift right, xor the polynomial in
\* when the bit shifted out was set.
CrcShift(c) ==
    LET shifted == AsSeq([i \in 1..32 |-> IF i = 1 THEN 0 ELSE c[i - 1]])
    IN  IF c[32] = 1 THEN XorBits(shifted, CrcPoly) ELSE shifted

CrcByte(c, b) ==
    LET bb == ByteBits(b)
        x == AsSeq([i \in 1..32 |-> IF i <= 24 THEN c[i] ELSE (c[i] + bb[i - 24]) % 2])
    IN  CrcShift(CrcShift(CrcShift(CrcShift(CrcShift(CrcShift(CrcShift(CrcShift(x))))))))

\* The register after bytes[lo..hi] have been fed in, in order.  A long range
\* is fed in as two halves, which keeps the evaluation shallow; the test on
\* the intermediate register only makes it be evaluated first.
RECURSIVE CrcFold(_, _, _, _)
CrcFold(c, bytes, lo, hi) ==
    IF lo > hi THEN c
    ELSE IF lo = hi THEN CrcByte(c, bytes[lo])
    ELSE LET mid == (lo + hi) \div 2
             left == CrcFold(c, bytes, lo, mid)
         IN  IF Len(left) = 32 THEN CrcFold(left, bytes, mid + 1, hi) ELSE left

\* zlib.crc32(bytes) & 0xffffffff, as the four bytes of crc.to_bytes(4, 'big')
Crc32(bytes) == PackBits(XorBits(CrcFold(Ones32, bytes, 1, Len(bytes)), Ones32))

(***************************************************************************)
(* ------------------------------ base64 -------------------------------- *)
(* Text is a sequence of code points.                                      *)
(***************************************************************************)
B64Pad == 61

\* The base64 alphabet: the code point of digit d.
B64Char(d) ==
    IF d < 26 THEN 65 + d
    ELSE IF d < 52 THEN 97 + (d - 26)
    ELSE IF d < 62 THEN 48 + (d - 52)
    ELSE IF d = 62 THEN 43 ELSE 47

\* The digit of a code point, 64 for a character outside the alphabet.
B64Digit(c) ==
    IF c >= 65 /\ c <= 90 THEN c - 65
    ELSE IF c >= 97 /\ c <= 122 THEN c - 97 + 26
    ELSE IF c >= 48 /\ c <= 57 THEN c - 48 + 52
    ELSE IF c = 43 THEN 62
    ELSE IF c = 47 THEN 63 ELSE 64

\* base64.b64encode(data).decode('utf-8')
B64Encode(data) ==
    LET n == Len(data)
        byte(i) == IF i <= n THEN data[i] ELSE 0
        quad(g) ==
            LET b1 == byte(3 * g + 1)
                b2 == byte(3 * g + 2)
                b3 == byte(3 * g + 3)
            IN  << B64Char(b1 \div 4),
                   B64Char((b1 % 4) * 16 + (b2 \div 16)),
                   IF 3 * g + 2 > n THEN B64Pad ELSE B64Char((b2 % 16) * 4 + (b3 \div 64)),
                   IF 3 * g + 3 > n THEN B64Pad ELSE B64Char(b3 % 64) >>
    IN  AsSeq([i \in 1..(4 * ((n + 2) \div 3)) |-> quad((i - 1) \div 4)[((i - 1) % 4) + 1]])

\* One character of binascii.a2b_base64 without strict mode: a character
\* outside the alphabet is skipped, a complete pad sequence ends the input.
\* st = [quad_pos, leftchar, pads, out, done].
A2bStep(st, c) ==
    LET d == B64Digit(c)
    IN  IF st.done THEN st
        ELSE IF c = B64Pad
        THEN IF st.quad_pos >= 2 /\ st.quad_pos + st.pads + 1 >= 4
             THEN [st EXCEPT !.done = TRUE]
             ELSE IF st.quad_pos >= 2 THEN [st EXCEPT !.pads = @ + 1] ELSE st
        ELSE IF d >= 64 THEN st
        ELSE CASE st.quad_pos = 0 ->
                    [st EXCEPT !.quad_pos = 1, !.leftchar = d, !.pads = 0]
               [] st.quad_pos = 1 ->
                    [st EXCEPT !.quad_pos = 2, !.leftchar = d % 16, !.pads = 0,
                               !.out = Append(@, st.leftchar * 4 + (d \div 16))]
               [] st.quad_pos = 2 ->
                    [st EXCEPT !.quad_pos = 3, !.leftchar = d % 4, !.pads = 0,
                               !.out = Append(@, st.leftchar * 16 + (d \div 4))]
               [] st.quad_pos = 3 ->
                    [st EXCEPT !.quad_pos = 0, !.leftchar = 0, !.pads = 0,
                               !.out = Append(@, st.leftchar * 64 + d)]

\* The decoder state after text[lo..hi], fed in order (as two halves when
\* the range is long; the test on the intermediate state only makes it be
\* evaluated first).
RECURSIVE A2bFold(_, _, _, _)
A2bFold(st, text, lo, hi) ==
    IF lo > hi THEN st
    ELSE IF lo = hi THEN A2bStep(st, text[lo])
    ELSE LET mid == (lo + hi) \div 2
             left == A2bFold(st, text, lo, mid)
         IN  IF left.done \in BOOLEAN THEN A2bFold(left, text, mid + 1, hi) ELSE left

\* binascii.a2b_base64(text): a dangling group at the end is an error.
A2bBase64(text) ==
    LET st == A2bFold([quad_pos |-> 0, leftchar |-> 0, pads |-> 0, out |-> <<>>,
                       done |-> FALSE], text, 1, Len(text))
    IN  IF ~st.done /\ st.quad_pos # 0 THEN [ok |-> FALSE]
        ELSE [ok |-> TRUE, data |-> st.out]

\* base64.b64decode(text) of a str: a non-ASCII character is an error.
B64Decode(text) ==
    IF \E i \in DOMAIN text : text[i] >= 128 THEN [ok |-> FALSE]
    ELSE A2bBase64(text)

\* text.encode('utf-8') for code points below 256
Utf8Encode(text) ==
    Flatten([i \in DOMAIN text |->
        IF text[i] < 128 THEN <<text[i]>>
        ELSE <<192 + (text[i] \div 64), 128 + (text[i] % 64)>>])

(***************************************************************************)
(* --------------------------- hashing ---------------------------------- *)
(* models/schemas.py WatermarkPayload, core/hashing/watermark_hash.py      *)
(***************************************************************************)

\* Largest timestamp the model draws (two decimal digits are reached).
MaxTimestamp == 10

\* Field values the model draws.  Strings are sequences of characters; the
\* quote and the backslash are the characters json.dumps has to escape.
UserIds      == { <<"a">>, <<"a", "\"">> }
Licenses     == { <<"C">>, <<"C", "\\">> }
MetaHashes   == { <<"0">>, <<"1">> }
ContentHashes == { <<"e">>, <<"f">> }
Timestamps   == {0, 9, MaxTimestamp}

WatermarkPayload ==
    [user_id : UserIds, timestamp : Timestamps, metadata_hash : MetaHashes,
     content_hash : ContentHashes, license : Licenses]

\* Code points of the key names, for sort_keys.
KeyChars(k) ==
    CASE k = "user_id"       -> <<117, 115, 101, 114, 95, 105, 100>>
      [] k = "timestamp"     -> <<116, 105, 109, 101, 115, 116, 97, 109, 112>>
      [] k = "metadata_hash" -> <<109, 101, 116, 97, 100, 97, 116, 97, 95, 104, 97, 115, 104>>
      [] k = "content_hash"  -> <<99, 111, 110, 116, 101, 110, 116, 95, 104, 97, 115, 104>>
      [] k = "license"       -> <<108, 105, 99, 101, 110, 115, 101>>

RECURSIVE SeqLess(_, _)
SeqLess(a, b) ==
    IF a = <<>> THEN b # <<>>
    ELSE IF b = <<>> THEN FALSE
    ELSE IF Head(a) # Head(b) THEN Head(a) < Head(b)
    ELSE SeqLess(Tail(a), Tail(b))

KeyLess(j, k) == SeqLess(KeyChars(j), KeyChars(k))

\* A dict is a sequence of <<key, value>> items in insertion order; a value
\* is [t |-> "str", v |-> chars] or [t |-> "int", v |-> n].
StrV(s) == [t |-> "str", v |-> s]
IntV(n) == [t |-> "int", v |-> n]

\* Insertion of one item into a list of items sorted by key.
RECURSIVE InsertByKey(_, _)
InsertByKey(it, sorted) ==
    IF sorted = <<>> THEN <<it>>
    ELSE IF KeyLess(it[1], Head(sorted)[1]) THEN <<it>> \o sorted
    ELSE <<Head(sorted)>> \o InsertByKey(it, Tail(sorted))

\* The items of a dict ordered by key, as sort_keys=True orders them.
RECURSIVE SortKeys(_)
SortKeys(items) ==
    IF items = <<>> THEN <<>> ELSE InsertByKey(Head(items), SortKeys(Tail(items)))

RECURSIVE DecStr(_)
DecStr(n) ==
    LET d == <<"0", "1", "2", "3", "4", "5", "6", "7", "8", "9">>
    IN  IF n < 10 THEN <<d[n + 1]>> ELSE DecStr(n \div 10) \o <<d[(n % 10) + 1]>>

\* json.dumps of a string: quoted, with the quote and the backslash escaped.
RECURSIVE JsonEscape(_)
JsonEscape(s) ==
    IF s = <<>> THEN <<>>
    ELSE (IF Head(s) \in {"\"", "\\"} THEN <<"\\", Head(s)>> ELSE <<Head(s)>>)
         \o JsonEscape(Tail(s))

JsonValue(v) ==
    IF v.t = "int" THEN DecStr(v.v) ELSE <<"\"">> \o JsonEscape(v.v) \o <<"\"">>

RECURSIVE JsonItems(_)
JsonItems(items) ==
    IF items = <<>> THEN <<>>
    ELSE <<"\"", Head(items)[1], "\"", ":", " ">> \o JsonValue(Head(items)[2])
         \o (IF Len(items) > 1 THEN <<",", " ">> ELSE <<>>)
         \o JsonItems(Tail(items))

\* json.dumps(d, sort_keys=...): the text, one element per character (a key
\* name is one element).
JsonDumps(items, sort_keys) ==
    <<"{">> \o JsonItems(IF sort_keys THEN SortKeys(items) ELSE items) \o <<"}">>

\* hashlib.sha256(text).hexdigest(), idealised: collision free.
Sha256Hex(text) == [sha256 |-> text]

\* A variant of HashData that also feeds content_hash into the hash.
HashDataWithContent(p) ==
    << <<"user_id", StrV(p.user_id)>>, <<"timestamp", IntV(p.timestamp)>>,
       <<"metadata_hash", StrV(p.metadata_hash)>>,
       <<"content_hash", StrV(p.content_hash)>>,
       <<"license", StrV(p.license)>> >>

\* hash_data of generate_watermark_hash
HashData(p) ==
    << <<"user_id", StrV(p.user_id)>>, <<"timestamp", IntV(p.timestamp)>>,
       <<"metadata_hash", StrV(p.metadata_hash)>>,
       <<"license", StrV(p.license)>> >>

HashStr(p) == JsonDumps(HashData(p), TRUE)

generate_watermark_hash(p) == Sha256Hex(HashStr(p))

\* payload.model_dump(): the fields in declaration order
ModelDump(p) ==
    << <<"user_id", StrV(p.user_id)>>, <<"timestamp", IntV(p.timestamp)>>,
       <<"metadata_hash", StrV(p.metadata_hash)>>,
       <<"content_hash", StrV(p.content_hash)>>,
       <<"license", StrV(p.license)>> >>

\* json.dumps(payload.model_dump()).encode('utf-8'); the text is ASCII, its
\* bytes are written as its characters
PayloadText(p) == JsonDumps(ModelDump(p), FALSE)

HashInit == cur_hash = None /\ prev_hash = None

HashIdle == HashInit

\* One call of generate_watermark_hash and the bytes embed_watermark makes of
\* the same payload for the embedders; the previous result is kept so that
\* two calls can be compared.
GenerateWatermarkHash ==
    \E p \in WatermarkPayload :
        /\ cur_hash' = [payload |-> p, hash_str |-> HashStr(p),
                        hash |-> generate_watermark_hash(p),
                        watermark_data |-> PayloadText(p)]
        /\ prev_hash' = cur_hash

(***************************************************************************)
(* ------------------- container metadata, PNG -------------------------- *)
(* core/watermarking/metadata/metadata_watermark.py                        *)
(***************************************************************************)

\* Payload bytes the model draws for the byte level codecs: every sequence
\* of 1..MaxDataLen bytes over DataBytes.
MaxDataLen == 3
DataBytes == {65, 123, 255}

RECURSIVE SeqsUpTo(_, _)
SeqsUpTo(S, n) ==
    IF n = 0 THEN {<<>>}
    ELSE LET shorter == SeqsUpTo(S, n - 1)
         IN  shorter \cup {Append(q, x) : q \in {r \in shorter : Len(r) = n - 1}, x \in S}

\* One long payload: its base64 text (2500 characters for 1875 bytes) does
\* not fit one chunk of chunk_size characters.
LongDataLen == 1875
LongData == AsSeq([i \in 1..LongDataLen |-> 65 + (i % 26)])

WatermarkData == (SeqsUpTo(DataBytes, MaxDataLen) \ {<<>>}) \cup {LongData}

PNG_SIGNATURE == <<137, 80, 78, 71, 13, 10, 26, 10>>
IHDR == <<73, 72, 68, 82>>
IDAT == <<73, 68, 65, 84>>
IEND == <<73, 69, 78, 68>>
tEXt == <<116, 69, 88, 116>>

\* HASH_TAG = "WMHash"
HASH_TAG == <<87, 77, 72, 97, 115, 104>>

\* chunk_size of _embed_png_metadata
chunk_size == 2000

\* A PNG chunk: length (4 bytes, big-endian) + type + data + CRC-32(type + data)
MakeChunk(type, data) == U32BE(Len(data)) \o type \o data \o Crc32(type \o data)

\* A PIL image opened from a PNG: header, pixel data and the text chunks the
\* file carried (image.info / image.text).
PngImages ==
    { [ihdr |-> <<0, 0, 0, 1, 0, 0, 0, 1, 8, 0, 0, 0, 0>>, idat |-> idat, text |-> text] :
        idat \in { <<120, 1>>, <<73, 69, 78, 68>> },
        text \in { <<>>, << <<<<67>>, <<104, 105>>>> >> } }

\* image.save(output, format='PNG'): IHDR, IDAT, IEND.  No pnginfo is passed,
\* so the text of the source image is not written.
PilSavePng(image) ==
    PNG_SIGNATURE \o MakeChunk(IHDR, image.ihdr) \o MakeChunk(IDAT, image.idat)
    \o MakeChunk(IEND, <<>>)

\* s.startswith(prefix)
StartsWith(s, prefix) ==
    Len(s) >= Len(prefix) /\ \A i \in DOMAIN prefix : s[i] = prefix[i]

MatchAt(bytes, pat, at) ==
    at + Len(pat) <= Len(bytes) /\ \A i \in DOMAIN pat : bytes[at + i] = pat[i]

\* bytes.rfind(pat): 0-based index of the last occurrence, -1 if none
RFind(bytes, pat) ==
    LET hits == {at \in 0..Len(bytes) : MatchAt(bytes, pat, at)}
    IN  IF hits = {} THEN -1 ELSE CHOOSE at \in hits : \A o \in hits : o <= at

\* bytes.find(b) of a single byte: 0-based index of the first one, -1 if none
FindByte(bytes, b) ==
    LET hits == {i \in DOMAIN bytes : bytes[i] = b}
    IN  IF hits = {} THEN -1 ELSE (CHOOSE i \in hits : \A o \in hits : i <= o) - 1

\* str(n) as code points
RECURSIVE DecCodes(_)
DecCodes(n) == IF n < 10 THEN <<48 + n>> ELSE DecCodes(n \div 10) \o <<48 + (n % 10)>>

\* keyword of the chunk that starts at character i of the base64 text
ChunkKeyword(i) == IF i > 0 THEN HASH_TAG \o DecCodes(i \div chunk_size) ELSE HASH_TAG

\* One tEXt chunk of _embed_png_metadata: keyword, NUL, text.
WatermarkChunk(watermark_b64, i) ==
    MakeChunk(tEXt, ChunkKeyword(i) \o <<0>> \o Slice(watermark_b64, i, i + chunk_size))

\* watermark_chunks of _embed_png_metadata: for i in range(0, len, chunk_size)
WatermarkChunks(watermark_b64) ==
    AsSeq([k \in 1..((Len(watermark_b64) + chunk_size - 1) \div chunk_size) |->
              WatermarkChunk(watermark_b64, (k - 1) * chunk_size)])

\* iend_pos of _embed_png_metadata
IendPos(png_bytes) == RFind(png_bytes, IEND)

\* MetadataWatermarker._embed_png_metadata
embed_png_metadata(image, watermark_b64) ==
    LET png_bytes == PilSavePng(image)
        iend_pos == IendPos(png_bytes)
    IN  IF iend_pos = -1 THEN [ok |-> FALSE, err |-> "Invalid PNG format"]
        ELSE [ok |-> TRUE,
              data |-> Slice(png_bytes, 0, iend_pos)
                       \o Flatten(WatermarkChunks(watermark_b64))
                       \o Slice(png_bytes, iend_pos, Len(png_bytes))]

\* MetadataWatermarker.embed for an image whose format is PNG
CmeEmbed(image, watermark_data) == embed_png_metadata(image, B64Encode(watermark_data))

\* The chunk walk of _extract_png_metadata: the (keyword, text) pairs of the
\* tEXt chunks whose keyword starts with HASH_TAG, in stream order.
RECURSIVE ScanChunks(_, _, _)
ScanChunks(png_bytes, pos, found) ==
    IF ~(pos < Len(png_bytes) - 12) THEN found
    ELSE IF pos + 4 > Len(png_bytes) THEN found
    ELSE LET chunk_length == FromU32BE(Slice(png_bytes, pos, pos + 4))
             chunk_type == Slice(png_bytes, pos + 4, pos + 8)
             p8 == pos + 8
         IN  IF pos + 8 > Len(png_bytes) THEN found
             ELSE IF chunk_type = tEXt
             THEN IF p8 + chunk_length > Len(png_bytes) THEN found
                  ELSE LET chunk_data == Slice(png_bytes, p8, p8 + chunk_length)
                           null_pos == FindByte(chunk_data, 0)
                           keyword == Slice(chunk_data, 0, null_pos)
                           text == Slice(chunk_data, null_pos + 1, Len(chunk_data))
                           found2 == IF null_pos # -1 /\ StartsWith(keyword, HASH_TAG)
                                     THEN Append(found, <<keyword, text>>)
                                     ELSE found
                       IN  ScanChunks(png_bytes, p8 + chunk_length + 4, found2)
             ELSE IF chunk_type = IEND THEN found
             ELSE ScanChunks(png_bytes, p8 + chunk_length + 4, found)

\* list.sort(key=lambda x: x[0]): stable, keywords compared as strings
RECURSIVE InsertByKeyword(_, _)
InsertByKeyword(it, sorted) ==
    IF sorted = <<>> THEN <<it>>
    ELSE IF ~SeqLess(Head(sorted)[1], it[1]) THEN <<it>> \o sorted
    ELSE <<Head(sorted)>> \o InsertByKeyword(it, Tail(sorted))

RECURSIVE SortByKeyword(_)
SortByKeyword(chunks) ==
    IF chunks = <<>> THEN <<>>
    ELSE InsertByKeyword(Head(chunks), SortByKeyword(Tail(chunks)))

\* MetadataWatermarker._extract_png_metadata
extract_png_metadata(png_bytes) ==
    LET watermark_chunks == ScanChunks(png_bytes, 8, <<>>)
        sorted == SortByKeyword(watermark_chunks)
        watermark_b64 == Flatten([i \in DOMAIN sorted |-> sorted[i][2]])
        decoded == B64Decode(watermark_b64)
    IN  IF watermark_chunks = <<>>
        THEN [ok |-> FALSE, err |-> "No watermark found in PNG metadata"]
        ELSE IF decoded.ok THEN [ok |-> TRUE, data |-> decoded.data]
        ELSE [ok |-> TRUE, data |-> Utf8Encode(watermark_b64)]

\* MetadataWatermarker.extract for a file whose format is PNG
CmeExtract(png_bytes) == extract_png_metadata(png_bytes)

PngInit ==
    /\ png_image \in PngImages
    /\ png_data \in WatermarkData
    /\ png_out = None
    /\ png_extracted = None

PngIdle ==
    png_image = None /\ png_data = None /\ png_out = None /\ png_extracted = None

\* MetadataWatermarker.embed(file, watermark_data) on a PNG
CmeEmbedPng ==
    /\ png_out = None
    /\ png_out' = CmeEmbed(png_image, png_data)
    /\ UNCHANGED <<png_image, png_data, png_extracted>>

\* MetadataWatermarker.extract(file) on the bytes embed returned
CmeExtractPng ==
    /\ png_out # None /\ png_out.ok
    /\ png_extracted = None
    /\ png_extracted' = CmeExtract(png_out.data)
    /\ UNCHANGED <<png_image, png_data, png_out>>

\* ---- extraction from a PNG written by any embedder of the format ----

\* Payloads whose base64 text has 4, 8 and 12 characters
ChunkData ==
    { <<65>>, <<123, 255>>, <<0, 16, 131>>, <<0, 16, 131, 16, 81, 135>>,
      <<0, 16, 131, 16, 81, 135, 32, 146, 139>>, <<123, 34, 97, 34, 58, 49, 125, 10, 255>> }

\* Characters of the base64 text per chunk
PieceSizes == {1, 2, 4}

\* The stream position of chunk k of n (1-based) in each stream order
StreamOrders == {"ascending", "descending", "odd_first"}

ChunkAt(order, n, pos) ==
    CASE order = "ascending"  -> pos
      [] order = "descending" -> n + 1 - pos
      [] OTHER -> IF pos <= (n + 1) \div 2 THEN 2 * pos - 1 ELSE 2 * (pos - (n + 1) \div 2)

\* Keyword of the k-th piece (0-based): WMHash, WMHash1, WMHash2, ...
PieceKeyword(k) == IF k > 0 THEN HASH_TAG \o DecCodes(k) ELSE HASH_TAG

\* A well-formed PNG whose tEXt chunks carry the base64 text of data in
\* pieces of `piece` characters, in the given stream order
PngOfPieces(data, piece, order) ==
    LET b64 == B64Encode(data)
        n == (Len(b64) + piece - 1) \div piece
        chunk(k) == MakeChunk(tEXt, PieceKeyword(k) \o <<0>>
                                    \o Slice(b64, k * piece, (k + 1) * piece))
    IN  PNG_SIGNATURE
        \o MakeChunk(IHDR, <<0, 0, 0, 1, 0, 0, 0, 1, 8, 0, 0, 0, 0>>)
        \o MakeChunk(IDAT, <<120, 1>>)
        \o Flatten([pos \in 1..n |-> chunk(ChunkAt(order, n, pos) - 1)])
        \o MakeChunk(IEND, <<>>)

ChunkInit ==
    /\ chunks_in \in [data : ChunkData, piece : PieceSizes, order : StreamOrders]
    /\ chunks_result = None

ChunkIdle ==
    chunks_in = None /\ chunks_result = None

\* MetadataWatermarker.extract(file) on the PNG
CmeExtractPieces ==
    /\ chunks_result = None
    /\ chunks_result' = CmeExtract(PngOfPieces(chunks_in.data, chunks_in.piece,
                                               chunks_in.order))
    /\ UNCHANGED chunks_in

(***************************************************************************)
(* --------------------------- audio, DCT/QIM --------------------------- *)
(* core/watermarking/audio/audio_watermark.py and the audio branches of    *)
(* services/watermark_service.py                                           *)
(***************************************************************************)

\* Payload bytes the model draws for the audio codec.
MaxAdeLen == 2
AdeData == SeqsUpTo(DataBytes, MaxAdeLen) \ {<<>>}

MAGIC_PATTERN == <<1, 0, 1, 1, 0, 0, 1, 0, 1, 1, 1, 0, 0, 1, 0, 1>>

\* AudioWatermarker.__init__ defaults
block_size == 1024
coef_start == 8

\* hashlib.md5(data).digest(), idealised: a fixed function from byte strings
\* to 16 bytes (byte k is a position weighted sum of the input).  The model
\* relies on nothing but its being a function of the input.
RECURSIVE Md5Sum(_, _, _, _)
Md5Sum(data, lo, hi, k) ==
    IF lo > hi THEN 0
    ELSE IF lo = hi THEN ((lo + k) * (data[lo] + 1)) % 256
    ELSE LET mid == (lo + hi) \div 2
         IN  (Md5Sum(data, lo, mid, k) + Md5Sum(data, mid + 1, hi, k)) % 256

Md5(data) ==
    AsSeq([k \in 1..16 |-> (Md5Sum(data, 1, Len(data), k) + 31 * k + Len(data)) % 256])

\* A 64 character hex digest: the code points of c repeated.
HexRun(c) == AsSeq([i \in 1..64 |-> c])

\* Watermark hashes (sha256 hex digests) the model draws.
WatermarkHashes == { HexRun(97), AsSeq([i \in 1..64 |-> IF i % 2 = 0 THEN 51 ELSE 99]) }

\* n.to_bytes(2, 'big')
U16BE(n) == << n \div 256, n % 256 >>

\* An Optional[str] argument is None or Str(s), s the code points.
Str(s) == [str |-> s]

\* Python truth of an Optional[str]: false for None and for the empty string
Truthy(opt) == opt # None /\ opt.str # <<>>

\* AudioWatermarker._prepare_watermark (include_params = True)
prepare_watermark(data, personalization_hash) ==
    LET data2 == IF Truthy(personalization_hash)
                 THEN Slice(Md5(personalization_hash.str), 0, 8) \o data
                 ELSE data
        length == Len(data2)
    IN  IF length > 65535
        THEN [ok |-> FALSE, err |-> "Watermark data too large (max 65535 bytes)"]
        ELSE [ok |-> TRUE,
              bits |-> MAGIC_PATTERN
                       \o UnpackBits(U16BE(length) \o Slice(Md5(data2), 0, 4) \o data2)]

\* coef_end - coef_start of _embed_in_dct / _extract_from_dct
CoefsPerBlock(bs) == (IF bs \div 2 < 24 THEN bs \div 2 ELSE 24) - coef_start

\* A variant of BlockCount that drops the last, partial block
BlockCountFloor(samples, bs) == samples \div bs

\* len(dct_blocks) of _apply_dct_2d: the samples padded to whole blocks
BlockCount(samples, bs) == (samples + bs - 1) \div bs

\* The bit each mid-band coefficient of the file decodes to before anything
\* is embedded.
CarrierBits(audio) ==
    AsSeq([i \in 1..(BlockCount(audio.samples, block_size) * CoefsPerBlock(block_size)) |->
              audio.noise])

\* AudioWatermarker._embed_in_dct, at the level of the bit each coefficient
\* carries: the capacity check, then bit i goes into the i-th coefficient.
embed_in_dct(audio, watermark_bits) ==
    LET carrier == CarrierBits(audio)
        total_capacity == Len(carrier)
    IN  IF Len(watermark_bits) > total_capacity
        THEN [ok |-> FALSE, err |-> "Audio too short for watermark"]
        ELSE [ok |-> TRUE,
              wav |-> [samples |-> audio.samples,
                       bits |-> watermark_bits
                                \o Slice(carrier, Len(watermark_bits), total_capacity)]]

\* AudioWatermarker.embed
AdeEmbed(audio, watermark_data, personalization_hash) ==
    LET prepared == prepare_watermark(watermark_data, personalization_hash)
    IN  IF ~prepared.ok THEN prepared ELSE embed_in_dct(audio, prepared.bits)

\* matches of _find_sync_pattern at position i (0-based)
SyncMatches(bits, i) ==
    Cardinality({j \in 1..Len(MAGIC_PATTERN) : bits[i + j] = MAGIC_PATTERN[j]})

\* AudioWatermarker._find_sync_pattern: the positions whose match ratio is at
\* least 0.65, by descending ratio; the sort is stable, so ascending position
\* among equal ratios.
RECURSIVE PositionsWith(_, _, _, _)
PositionsWith(bits, m, lo, hi) ==
    IF lo >= hi THEN <<>>
    ELSE IF lo + 1 = hi THEN (IF SyncMatches(bits, lo) = m THEN <<lo>> ELSE <<>>)
    ELSE LET mid == (lo + hi) \div 2
         IN  AsSeq(PositionsWith(bits, m, lo, mid) \o PositionsWith(bits, m, mid, hi))

RECURSIVE SyncByQuality(_, _, _)
SyncByQuality(bits, m, search_range) ==
    IF m * 100 < 65 * Len(MAGIC_PATTERN) THEN <<>>
    ELSE PositionsWith(bits, m, 0, search_range) \o SyncByQuality(bits, m - 1, search_range)

find_sync_pattern(bits) ==
    LET max_search == 2000
        avail == Len(bits) - Len(MAGIC_PATTERN)
        search_range == IF max_search < avail THEN max_search ELSE avail
    IN  SyncByQuality(bits, Len(MAGIC_PATTERN), search_range)

\* int.from_bytes(b, 'big') of two bytes
FromU16BE(b) == b[1] * 256 + b[2]

\* AudioWatermarker._try_extract_at_position: None, or the bytes as [data |-> b]
try_extract_at_position(bits, start_pos) ==
    LET data_bits == Slice(bits, start_pos, Len(bits))
    IN  IF Len(data_bits) < 48 THEN None
        ELSE LET watermark_length == FromU16BE(PackBits(Slice(data_bits, 0, 16)))
                 required_bits == 48 + watermark_length * 8
             IN  IF watermark_length = 0 \/ watermark_length > 65535 THEN None
                 ELSE IF Len(data_bits) < required_bits THEN None
                 ELSE LET checksum == PackBits(Slice(data_bits, 16, 48))
                          watermark_data == PackBits(Slice(data_bits, 48, required_bits))
                      IN  IF checksum = Slice(Md5(watermark_data), 0, 4)
                          THEN [data |-> watermark_data] ELSE None

\* The first element of positions (shifted by offset) that decodes, or None
RECURSIVE FirstDecoding(_, _, _)
FirstDecoding(bits, positions, offset) ==
    IF positions = <<>> THEN None
    ELSE LET got == try_extract_at_position(bits, Head(positions) + offset)
         IN  IF got # None THEN got ELSE FirstDecoding(bits, Tail(positions), offset)

\* range(0, min(500, len(bits) - 100), 8)
BruteOffsets(bits) ==
    LET stop == IF 500 < Len(bits) - 100 THEN 500 ELSE Len(bits) - 100
    IN  IF stop <= 0 THEN <<>> ELSE AsSeq([k \in 1..((stop + 7) \div 8) |-> 8 * (k - 1)])

\* The body of the loop of AudioWatermarker.extract for one parameter
\* combination, on the bits _extract_from_dct decoded with it.
extract_with_params(extracted_bits) ==
    IF Len(extracted_bits) = 0 THEN None
    ELSE LET anchored == FirstDecoding(extracted_bits, find_sync_pattern(extracted_bits),
                                       Len(MAGIC_PATTERN))
         IN  IF anchored # None THEN anchored
             ELSE FirstDecoding(extracted_bits, BruteOffsets(extracted_bits), 0)

\* param_combinations of AudioWatermarker.extract: (block_size, alpha * 100)
ParamCombinations ==
    << <<block_size, 5>>, <<1024, 5>>, <<1024, 3>>, <<1024, 7>>, <<512, 5>>, <<2048, 5>> >>

\* _extract_from_dct(audio, block_size, alpha, max_bits), given that the
\* coefficients decode unchanged with the parameters of the embedder: those
\* parameters read the bits the file carries; other parameters read
\* `detuned`, bits unrelated to what was embedded.
extract_from_dct(wav, params, detuned) ==
    IF params = <<block_size, 5>> THEN wav.bits ELSE detuned

RECURSIVE ExtractLoop(_, _, _)
ExtractLoop(wav, combos, detuned) ==
    IF combos = <<>>
    THEN [ok |-> FALSE, err |-> "No watermark detected"]
    ELSE LET got == extract_with_params(extract_from_dct(wav, Head(combos), detuned))
         IN  IF got # None THEN [ok |-> TRUE, data |-> got.data]
             ELSE ExtractLoop(wav, Tail(combos), detuned)

\* AudioWatermarker.extract
AdeExtract(wav, detuned) == ExtractLoop(wav, ParamCombinations, detuned)

\* AudioWatermarker.supports_format
AdeSupportsFormat(ext) == ext \in {".wav", ".mp3", ".flac", ".ogg", ".m4a", ".aac"}

\* WatermarkService.embed_watermark, audio branch for extensions other than .mp3
EmbedAudio(available, audio, watermark_data, watermark_hash) ==
    IF ~available
    THEN [ok |-> FALSE, err |-> "Audio watermarking library not available"]
    ELSE IF ~AdeSupportsFormat(audio.ext)
    THEN [ok |-> FALSE, err |-> "Unsupported audio format"]
    ELSE AdeEmbed(audio, watermark_data, Str(watermark_hash))

\* A Python function that ends without a return statement returns None;
\* None is falsy like empty bytes and is told apart by the is_none field.
ReturnsNone == [ok |-> TRUE, data |-> <<>>, is_none |-> TRUE]

\* One "try: watermarker = ...; if watermarker and supports: return extract"
\* of extract_watermark: "return" with the bytes, "raise" when extract
\* raised, "fall" when the if was false and the try block ended.
AudioStrategy(available, ext, r) ==
    IF ~available \/ ~AdeSupportsFormat(ext) THEN [kind |-> "fall"]
    ELSE IF r.ok THEN [kind |-> "return", data |-> r.data]
    ELSE [kind |-> "raise", err |-> r.err]

\* WatermarkService.extract_watermark, audio branch for extensions other
\* than .mp3.  Every strategy builds a new AudioWatermarker, whose extract
\* does not read personalization_hash, so all strategies run the same
\* extraction on the same file: r is what AudioWatermarker.extract does on it.
ExtractAudioFrom(available, ext, r, personalization_hash) ==
    LET s == AudioStrategy(available, ext, r)
        first == IF Truthy(personalization_hash) THEN s ELSE [kind |-> "fall"]
    IN  IF first.kind = "return" THEN [ok |-> TRUE, data |-> first.data]
        \* strategy 2 (None): a fall leaves the try statement and the function
        ELSE IF s.kind = "return" THEN [ok |-> TRUE, data |-> s.data]
        ELSE IF s.kind = "fall" THEN ReturnsNone
        \* strategies 3 and 4 run inside the except clauses and raise as well
        ELSE [ok |-> FALSE, err |-> "Failed to extract audio watermark with any method"]

ExtractAudio(available, ext, wav, personalization_hash, detuned) ==
    ExtractAudioFrom(available, ext, AdeExtract(wav, detuned), personalization_hash)

AudioFiles == [ext : {".wav", ".xyz"}, samples : {8192, 9216, 10240}, noise : {0, 1}]

DetunedBits == { <<>>, AsSeq([i \in 1..64 |-> 0]) }

AdeInit ==
    /\ ade_available \in BOOLEAN
    /\ audio_in \in AudioFiles
    /\ ade_call \in [data : AdeData, watermark_hash : WatermarkHashes]
    /\ audio_out = None
    /\ ade_result = None

AdeIdle ==
    /\ ade_available = None /\ audio_in = None /\ ade_call = None
    /\ audio_out = None /\ ade_result = None

\* embed_watermark(file, "audio", ext, ...): the payload bytes and the
\* watermark hash are those of ade_call.
EmbedAudioCall ==
    /\ audio_out = None
    /\ audio_out' = EmbedAudio(ade_available, audio_in, ade_call.data,
                               ade_call.watermark_hash)
    /\ UNCHANGED <<ade_available, audio_in, ade_call, ade_result>>

\* extract_watermark(file, "audio", ext, personalization_hash) on the bytes
\* embed returned.
ExtractAudioCall ==
    /\ audio_out # None /\ audio_out.ok
    /\ ade_result = None
    /\ \E ph \in {None, Str(<<>>), Str(ade_call.watermark_hash)}, detuned \in DetunedBits :
          ade_result' = [personalization_hash |-> ph,
                         result |-> ExtractAudio(ade_available, audio_in.ext,
                                                 audio_out.wav, ph, detuned)]
    /\ UNCHANGED <<ade_available, audio_in, ade_call, audio_out>>

\* Sample counts for _embed_in_dct taken alone: around one block and
\* around eight and nine blocks
DctSamples == {1, 1023, 1024, 1025, 8192, 8193, 9216}

\* The frame is at most MaxOver bits longer than the capacity
MaxOver == 2

DctInit ==
    /\ \E samples \in DctSamples, noise \in {0, 1}, fill \in {0, 1}, over \in -1..MaxOver :
          dct_in = [audio |-> [ext |-> ".wav", samples |-> samples, noise |-> noise],
                    watermark_bits |->
                        AsSeq([i \in 1..(BlockCount(samples, block_size)
                                         * CoefsPerBlock(block_size) + over) |-> fill])]
    /\ dct_out = None

DctIdle ==
    dct_in = None /\ dct_out = None

\* AudioWatermarker._embed_in_dct(audio_data, watermark_bits)
EmbedInDctCall ==
    /\ dct_out = None
    /\ dct_out' = embed_in_dct(dct_in.audio, dct_in.watermark_bits)
    /\ UNCHANGED dct_in

\* ---- the sync finder taken alone ----

\* The magic pattern with its first `flips` bits inverted
FlippedPattern(flips) ==
    [j \in 1..Len(MAGIC_PATTERN) |->
        IF j <= flips THEN 1 - MAGIC_PATTERN[j] ELSE MAGIC_PATTERN[j]]

\* A run of equal bits, a pattern with 0, 5 or 6 wrong bits, a run of equal
\* bits; the pattern starts at, before or after position 2000 - 1
SyncInputs ==
    { AsSeq([i \in 1..before |-> fill]) \o FlippedPattern(flips)
      \o AsSeq([i \in 1..after |-> fill]) :
        before \in {0, 1, 3, 1999, 2000}, flips \in {0, 5, 6},
        after \in {0, 1, 17}, fill \in {0, 1} }

SyncInit ==
    /\ sync_in \in SyncInputs
    /\ sync_out = None

SyncIdle ==
    sync_in = None /\ sync_out = None

\* AudioWatermarker._find_sync_pattern(bits)
FindSyncPattern ==
    /\ sync_out = None
    /\ sync_out' = [positions |-> find_sync_pattern(sync_in)]
    /\ UNCHANGED sync_in

\* ---- quantization index modulation of one coefficient ----
\* A coefficient is the rational n / d (d > 0); the arithmetic is exact.  In
\* floating point abs(coef) / (alpha * abs(coef)) is 1 / alpha up to the last
\* digit, on either side of it; the decoded bit is the same on both sides.

\* AudioWatermarker.__init__ default alpha = 0.05, in hundredths
alpha == 5

AbsInt(n) == IF n < 0 THEN -n ELSE n

RECURSIVE Gcd(_, _)
Gcd(x, y) == IF y = 0 THEN x ELSE Gcd(y, x % y)

\* n / d in lowest terms
Rat(n, d) ==
    LET g == Gcd(AbsInt(n), d)
    IN  [n |-> n \div g, d |-> d \div g]

\* x / y of two positive rationals, in lowest terms
RatDiv(x, y) ==
    LET gn == Gcd(x.n, y.n)
        gd == Gcd(x.d, y.d)
    IN  Rat((x.n \div gn) * (y.d \div gd), (x.d \div gd) * (y.n \div gn))

SignInt(n) == IF n < 0 THEN -1 ELSE IF n = 0 THEN 0 ELSE 1

\* x * y of two non-negative rationals, in lowest terms
RatMul(x, y) ==
    LET g1 == Gcd(x.n, y.d)
        g2 == Gcd(y.n, x.d)
    IN  Rat((x.n \div g1) * (y.n \div g2), (x.d \div g2) * (y.d \div g1))

\* delta = max(alpha * np.abs(coef), alpha * 0.001), a = alpha * 100
QimDelta(coef, a) ==
    IF 1000 * AbsInt(coef.n) >= coef.d
    THEN RatMul(Rat(a, 100), Rat(AbsInt(coef.n), coef.d))
    ELSE Rat(a, 100000)

\* q = int(np.abs(coef) / delta)
QimQ(coef, a) ==
    LET ratio == RatDiv(Rat(AbsInt(coef.n), coef.d), QimDelta(coef, a))
    IN  ratio.n \div ratio.d

\* Lines 137-149 of _embed_in_dct: np.sign(coef) * delta * (q + 0.5) for
\* bit 1, np.sign(coef) * delta * q for bit 0
QimModulate(coef, bit, a) ==
    LET delta == QimDelta(coef, a)
        q == QimQ(coef, a)
    IN  Rat(SignInt(coef.n) * delta.n * (2 * q + bit), 2 * delta.d)

\* Lines 185-193 of _extract_from_dct: remainder = q - int(q) of
\* q = abs(coef) / delta; bit 1 iff 0.25 < remainder < 0.75
QimDecode(coef, a) ==
    LET q == RatDiv(Rat(AbsInt(coef.n), coef.d), QimDelta(coef, a))
        rem == q.n % q.d
    IN  IF 4 * rem > q.d /\ 4 * rem < 3 * q.d THEN 1 ELSE 0

\* Coefficient values in millionths: zero, below and at the floor 0.001 of
\* the step, and above it
QimMicros == {0, 1, 24, 25, 50, 75, 999, 1000, 1001, 2500, 500000}

QimInit ==
    /\ qim_in \in [coef : {Rat(s * m, 1000000) : s \in {-1, 1}, m \in QimMicros},
                   bit : {0, 1}]
    /\ qim_mod = None
    /\ qim_bit = None

QimIdle ==
    qim_in = None /\ qim_mod = None /\ qim_bit = None

\* One pass of the inner loop of _embed_in_dct on the coefficient
QimModulateStep ==
    /\ qim_mod = None
    /\ qim_mod' = QimModulate(qim_in.coef, qim_in.bit, alpha)
    /\ UNCHANGED <<qim_in, qim_bit>>

\* One pass of the inner loop of _extract_from_dct on the modulated
\* coefficient, with the alpha of the embedder
QimDecodeStep ==
    /\ qim_mod # None /\ qim_bit = None
    /\ qim_bit' = [bit |-> QimDecode(qim_mod, alpha)]
    /\ UNCHANGED <<qim_in, qim_mod>>

(***************************************************************************)
(* ------------------------- orchestration ------------------------------ *)
(* services/watermark_service.py, services/verification_service.py; the   *)
(* codecs are taken by what they read from the caller's reader and by     *)
(* what they find in the file.                                            *)
(***************************************************************************)

Ok(d) == [ok |-> TRUE, data |-> d]
Raise(e) == [ok |-> FALSE, err |-> e]

\* Length of the caller's file in the model.
MaxFileLen == 1

\* Operations on the caller's reader: file.seek(0), a read to the end of the
\* file (file.read(), shutil.copyfileobj), and a read by a library (PIL,
\* librosa, pypdf, mutagen, stegano), which leaves the position wherever
\* that library stops.
PosAfter(rd, ops, lib_end) ==
    IF ops = <<>> THEN rd.pos
    ELSE CASE ops[Len(ops)] = "seek0"   -> 0
           [] ops[Len(ops)] = "readall" -> rd.len
           [] ops[Len(ops)] = "lib"     -> lib_end

\* compute_file_hash: seek(0), read in chunks to the end, seek(0)
HashOps == <<"seek0", "readall", "seek0">>

\* InvisibleWatermarker.embed / extract: file.seek(0); Image.open(file); np.array(image)
IfeOps == <<"seek0", "lib">>
\* SteganoWatermarker.embed / extract: file.seek(0); lsb.hide(file) / lsb.reveal(file)
IleOps == <<"seek0", "lib">>
\* MetadataWatermarker.embed: file.seek(0); Image.open(file); image.save
CmeEmbedOps == <<"seek0", "lib">>
\* MetadataWatermarker.extract: file.seek(0); Image.open(file); then EXIF of
\* the image, or for PNG and other formats file.seek(0); file.read()
CmeExtractOps(format) ==
    IF format = "JPEG" THEN <<"seek0", "lib">> ELSE <<"seek0", "lib", "seek0", "readall">>

\* ---- the codec slots ----

SlotNames == {"image_watermarker", "image_fallback", "metadata_watermarker", "pdf_watermarker"}

\* Whether the constructor of the slot's class returns: InvisibleWatermarker
\* and SteganoWatermarker raise without their library, MetadataWatermarker
\* and PDFWatermarker never raise.
Constructs(L, n) ==
    CASE n = "image_watermarker" -> "iw" \in L
      [] n = "image_fallback"    -> "stegano" \in L
      [] OTHER                   -> TRUE

\* The slot after its property was read: "None" is tried once.
Access(s, L, n) ==
    IF s[n] = "None" THEN (IF Constructs(L, n) THEN "instance" ELSE "False") ELSE s[n]

\* The property returns a watermarker (not None)
Has(s, L, n) == Access(s, L, n) = "instance"

\* The slots after the properties in T were read
Touch(s, L, T) == [n \in SlotNames |-> IF n \in T THEN Access(s, L, n) ELSE s[n]]

IfeSupportsFormat(ext) == ext \in {".jpg", ".jpeg", ".png", ".bmp"}
IleSupportsFormat(ext) == ext \in {".png"}
CmeSupportsFormat(ext) == ext \in {".jpg", ".jpeg", ".png", ".tiff", ".tif"}

\* ---- what a file carries ----

\* For each codec, what its decoder finds in the file: "raise" (the decode
\* raises), "empty" (no bytes), "junk" (bytes that are not JSON), "list"
\* (JSON that is not an object) or "payload" (a serialized payload).
Marks == {"raise", "empty", "junk", "list", "payload"}

\* The payload each codec's layer carries in the model: a different one per codec.
EnginePayload(e) ==
    [user_id |-> <<"a", "\"">>, metadata_hash |-> <<"0">>, content_hash |-> <<"e">>,
     license |-> <<"C">>,
     timestamp |-> CASE e = "CME" -> 0 [] e = "IFE" -> 9 [] OTHER -> MaxTimestamp]

EngineText(e, mark) ==
    CASE mark = "empty"   -> <<>>
      [] mark = "junk"    -> <<"{">>
      [] mark = "list"    -> <<"[", "1", "]">>
      [] mark = "payload" -> PayloadText(EnginePayload(e))

\* MetadataWatermarker.extract: the JPEG branch raises on an empty text,
\* the PNG branch returns what base64 decodes to
CmeExtractMark(format, mark) ==
    IF mark = "raise" \/ (mark = "empty" /\ format = "JPEG")
    THEN Raise("Failed to extract metadata watermark")
    ELSE Ok(EngineText("CME", mark))

\* InvisibleWatermarker.extract: empty bytes raise
IfeExtractMark(mark) ==
    IF mark \in {"raise", "empty"}
    THEN Raise("No watermark found in image - image may not be watermarked or may have been modified")
    ELSE Ok(EngineText("IFE", mark))

\* SteganoWatermarker.extract: an empty string raises
IleExtractMark(mark) ==
    IF mark = "raise"
    THEN Raise("No watermark found in image - image may not be watermarked or may have been modified")
    ELSE IF mark = "empty" THEN Raise("Failed to extract watermark: No watermark found in image")
    ELSE Ok(EngineText("ILE", mark))

\* "if watermark_data and len(watermark_data) > 0"
NonEmpty(r) == r.ok /\ r.data # <<>>

\* ---- images ----

\* str(e) of the exception a probe raised
ErrOf(r) == IF r.ok THEN "" ELSE r.err

\* The reasons collected in `errors`, in order
Reasons(rs) == Flatten([i \in DOMAIN rs |-> IF rs[i][1] THEN <<rs[i][2]>> ELSE <<>>])

\* A variant of extract_image_multiple that probes invisible-watermark
\* before the container metadata.
extract_image_multiple_ife_first(s, L, ext, format, marks) ==
    LET ife    == IfeExtractMark(marks.ife)
        ife_on == Has(s, L, "image_watermarker") /\ IfeSupportsFormat(ext)
        ife_hit == ife_on /\ NonEmpty(ife)
        cme    == CmeExtractMark(format, marks.cme)
        cme_on == ~ife_hit /\ Has(s, L, "metadata_watermarker") /\ CmeSupportsFormat(ext)
        cme_hit == cme_on /\ NonEmpty(cme)
        ile    == IleExtractMark(marks.ile)
        ile_on == ~ife_hit /\ ~cme_hit /\ Has(s, L, "image_fallback")
        ile_hit == ile_on /\ NonEmpty(ile)
    IN  [result |-> IF ife_hit THEN ife ELSE IF cme_hit THEN cme ELSE IF ile_hit THEN ile
                    ELSE [ok |-> FALSE, err |-> "Failed to extract watermark from image",
                          reasons |-> Reasons(<< <<ife_on /\ ~ife.ok, <<"Invisible-watermark", ErrOf(ife)>> >>,
                                                 <<cme_on /\ ~cme.ok, <<"Metadata", ErrOf(cme)>> >>,
                                                 <<ile_on /\ ~ile.ok, <<"Stegano", ErrOf(ile)>> >> >>)],
         probes |-> (IF ife_on THEN <<[engine |-> "IFE", input |-> "file"]>> ELSE <<>>)
                    \o (IF cme_on THEN <<[engine |-> "CME", input |-> "file"]>> ELSE <<>>)
                    \o (IF ile_on THEN <<[engine |-> "ILE",
                                          input |-> IF format # "PNG" THEN "png_buffer" ELSE "file"]>>
                        ELSE <<>>),
         ops |-> (IF ife_on THEN <<"seek0">> \o IfeOps ELSE <<>>)
                 \o (IF cme_on THEN <<"seek0">> \o CmeExtractOps(format) ELSE <<>>)
                 \o (IF ile_on THEN <<"seek0", "lib">> \o (IF format # "PNG" THEN <<>> ELSE IleOps)
                     ELSE <<>>),
         touched |-> {"image_watermarker"}
                     \cup (IF ~ife_hit THEN {"metadata_watermarker"} ELSE {})
                     \cup (IF ~ife_hit /\ ~cme_hit THEN {"image_fallback"} ELSE {})]

\* WatermarkService._extract_image_multiple on a file of the given image
\* format carrying `marks`: the result, the probes made in order (with the
\* input each was given), the operations on the caller's reader and the
\* slots read.
extract_image_multiple(s, L, ext, format, marks) ==
    LET cme    == CmeExtractMark(format, marks.cme)
        cme_on == Has(s, L, "metadata_watermarker") /\ CmeSupportsFormat(ext)
        cme_hit == cme_on /\ NonEmpty(cme)
        ife    == IfeExtractMark(marks.ife)
        ife_on == ~cme_hit /\ Has(s, L, "image_watermarker") /\ IfeSupportsFormat(ext)
        ife_hit == ife_on /\ NonEmpty(ife)
        ile    == IleExtractMark(marks.ile)
        \* self.image_fallback.supports_format('.png') is true
        ile_on == ~cme_hit /\ ~ife_hit /\ Has(s, L, "image_fallback")
        ile_hit == ile_on /\ NonEmpty(ile)
    IN  [result |-> IF cme_hit THEN cme ELSE IF ife_hit THEN ife ELSE IF ile_hit THEN ile
                    ELSE [ok |-> FALSE, err |-> "Failed to extract watermark from image",
                          reasons |-> Reasons(<< <<cme_on /\ ~cme.ok, <<"Metadata", ErrOf(cme)>> >>,
                                                 <<ife_on /\ ~ife.ok, <<"Invisible-watermark", ErrOf(ife)>> >>,
                                                 <<ile_on /\ ~ile.ok, <<"Stegano", ErrOf(ile)>> >> >>)],
         probes |-> (IF cme_on THEN <<[engine |-> "CME", input |-> "file"]>> ELSE <<>>)
                    \o (IF ife_on THEN <<[engine |-> "IFE", input |-> "file"]>> ELSE <<>>)
                    \o (IF ile_on THEN <<[engine |-> "ILE",
                                          input |-> IF format # "PNG" THEN "png_buffer" ELSE "file"]>>
                        ELSE <<>>),
         ops |-> (IF cme_on THEN <<"seek0">> \o CmeExtractOps(format) ELSE <<>>)
                 \o (IF ife_on THEN <<"seek0">> \o IfeOps ELSE <<>>)
                 \o (IF ile_on THEN <<"seek0", "lib">> \o (IF format # "PNG" THEN <<>> ELSE IleOps)
                     ELSE <<>>),
         touched |-> {"metadata_watermarker"}
                     \cup (IF ~cme_hit THEN {"image_watermarker"} ELSE {})
                     \cup (IF ~cme_hit /\ ~ife_hit THEN {"image_fallback"} ELSE {})]

\* An image file in the model: the layers embedded into it, oldest first,
\* and its container format.
Original(format) == [layers |-> <<>>, format |-> format]
AddLayer(f, e, format) == [layers |-> Append(f.layers, e), format |-> format]

\* A variant of CmeFormat that saves every image as PNG
CmeFormatAlwaysPng(format) == "PNG"

\* The format MetadataWatermarker.embed saves in
CmeFormat(format) == IF format = "JPEG" THEN "JPEG" ELSE "PNG"

\* settings.REDUNDANT_WATERMARKS
REDUNDANT_WATERMARKS == 3

\* A variant of embed_image_multiple without the stegano fallback on the
\* original file.
embed_image_multiple_no_fallback(s, L, ext, format, num_watermarks, fails) ==
    LET orig  == Original(format)
        l1_on == Has(s, L, "image_watermarker") /\ IfeSupportsFormat(ext)
        l1_ok == l1_on /\ "IFE" \notin fails
        cur1  == IF l1_ok THEN AddLayer(orig, "IFE", orig.format) ELSE orig
        l2_on == num_watermarks > 1 /\ Has(s, L, "image_fallback")
        l2_ok == l2_on /\ "ILE" \notin fails
        cur2  == IF l2_ok THEN AddLayer(cur1, "ILE", "PNG") ELSE cur1
        l3_on == Has(s, L, "metadata_watermarker") /\ CmeSupportsFormat(ext)
        l3_ok == l3_on /\ "CME" \notin fails
        cur3  == IF l3_ok THEN AddLayer(cur2, "CME", CmeFormat(cur2.format)) ELSE cur2
        untouched == ~l1_ok /\ ~l2_ok /\ ~l3_ok
    IN  [result |-> IF ~untouched THEN Ok(cur3)
                    ELSE Raise("No image watermarking method available"),
         tried |-> (IF l1_on THEN <<[layer |-> "IFE", input |-> orig, ok |-> l1_ok]>> ELSE <<>>)
                   \o (IF l2_on THEN <<[layer |-> "ILE", input |-> cur1, ok |-> l2_ok]>> ELSE <<>>)
                   \o (IF l3_on THEN <<[layer |-> "CME", input |-> cur2, ok |-> l3_ok]>> ELSE <<>>),
         fallback |-> FALSE,
         ops |-> <<"seek0">>
                 \o (IF l1_on THEN <<"seek0">> \o IfeOps ELSE <<>>)
                 \o (IF l2_on /\ ~l1_ok THEN <<"seek0", "lib">> ELSE <<>>)
                 \o (IF l3_on /\ ~l1_ok /\ ~l2_ok THEN <<"seek0">> \o CmeEmbedOps ELSE <<>>),
         touched |-> {"image_watermarker", "metadata_watermarker"}
                     \cup (IF num_watermarks > 1 THEN {"image_fallback"} ELSE {})]

\* WatermarkService._embed_image_multiple.  fails names the codec calls
\* that raise on this file and payload: "IFE", "ILE", "CME" for the three
\* layers, "ILE_fallback" for the last stegano call on the original file.
\* The result, the layers tried in order (with the input each was given),
\* whether the last stegano call ran, the operations on the caller's
\* reader and the slots read.
embed_image_multiple(s, L, ext, format, num_watermarks, fails) ==
    LET orig  == Original(format)
        l1_on == Has(s, L, "image_watermarker") /\ IfeSupportsFormat(ext)
        l1_ok == l1_on /\ "IFE" \notin fails
        \* format = image.format or 'PNG'
        cur1  == IF l1_ok THEN AddLayer(orig, "IFE", orig.format) ELSE orig
        \* self.image_fallback.supports_format('.png') is true
        l2_on == num_watermarks > 1 /\ Has(s, L, "image_fallback")
        l2_ok == l2_on /\ "ILE" \notin fails
        cur2  == IF l2_ok THEN AddLayer(cur1, "ILE", "PNG") ELSE cur1
        l3_on == Has(s, L, "metadata_watermarker") /\ CmeSupportsFormat(ext)
        l3_ok == l3_on /\ "CME" \notin fails
        cur3  == IF l3_ok THEN AddLayer(cur2, "CME", CmeFormat(cur2.format)) ELSE cur2
        \* current_file == file
        untouched == ~l1_ok /\ ~l2_ok /\ ~l3_ok
        fb_on == untouched /\ Has(s, L, "image_fallback") /\ IleSupportsFormat(ext)
    IN  [result |-> IF fb_on
                    THEN (IF "ILE_fallback" \in fails
                          THEN Raise("Failed to embed watermark with stegano")
                          ELSE Ok(AddLayer(orig, "ILE", "PNG")))
                    ELSE IF ~untouched THEN Ok(cur3)
                    ELSE Raise("No image watermarking method available"),
         tried |-> (IF l1_on THEN <<[layer |-> "IFE", input |-> orig, ok |-> l1_ok]>> ELSE <<>>)
                   \o (IF l2_on THEN <<[layer |-> "ILE", input |-> cur1, ok |-> l2_ok]>> ELSE <<>>)
                   \o (IF l3_on THEN <<[layer |-> "CME", input |-> cur2, ok |-> l3_ok]>> ELSE <<>>),
         fallback |-> fb_on,
         ops |-> <<"seek0">>
                 \o (IF l1_on THEN <<"seek0">> \o IfeOps ELSE <<>>)
                 \o (IF l2_on /\ ~l1_ok THEN <<"seek0", "lib">> ELSE <<>>)
                 \o (IF l3_on /\ ~l1_ok /\ ~l2_ok THEN <<"seek0">> \o CmeEmbedOps ELSE <<>>)
                 \o (IF fb_on THEN <<"seek0">> \o IleOps ELSE <<>>),
         touched |-> {"image_watermarker", "metadata_watermarker"}
                     \cup (IF num_watermarks > 1 \/ untouched THEN {"image_fallback"} ELSE {})]

\* ---- embed_watermark and extract_watermark ----

PdfSupportsFormat(ext) == ext = ".pdf"

\* WatermarkService._get_watermarker for file types other than image and
\* audio: the PDF codec, or the reason it raises
GetWatermarker(s, L, file_type, ext) ==
    IF file_type = "pdf"
    THEN (IF Has(s, L, "pdf_watermarker") /\ PdfSupportsFormat(ext) THEN Ok("pdf_watermarker")
          ELSE IF ~Has(s, L, "pdf_watermarker") THEN Raise("PDF watermarking library not available")
          ELSE Raise("Unsupported PDF format"))
    ELSE Raise("Unsupported file type")

\* What one codec's embed did: its result and its reads of the caller's file
Single(raised, err, out, ops) ==
    [result |-> IF raised THEN Raise(err) ELSE Ok(out), ops |-> ops]

\* WatermarkService.embed_watermark with the payload p it built
\* (content_hash from compute_file_hash, timestamp from the clock): the
\* result (bytes and watermark hash), the operations on the caller's reader
\* and the slots read.
embed_watermark(s, L, f, p, num_watermarks, fails) ==
    LET watermark_hash == generate_watermark_hash(p)
        img == embed_image_multiple(s, L, f.ext, f.format, num_watermarks, fails)
        gw  == GetWatermarker(s, L, f.type, f.ext)
        r == CASE f.type = "image" -> [result |-> img.result, ops |-> img.ops]
               [] f.type = "audio" /\ f.ext = ".mp3" ->
                    \* MP3MetadataWatermarker.supports_format('.mp3') is true
                    IF "mutagen" \notin L
                    THEN Single(TRUE, "mutagen library not available", None, <<"seek0">>)
                    ELSE Single("AME" \in fails, "Failed to embed MP3 metadata watermark",
                                [layers |-> <<"AME">>, format |-> "MP3"],
                                <<"seek0", "seek0", "readall">>)
               [] f.type = "audio" /\ f.ext # ".mp3" ->
                    IF "audio" \notin L
                    THEN Single(TRUE, "Audio watermarking library not available", None, <<>>)
                    ELSE IF ~AdeSupportsFormat(f.ext)
                    THEN Single(TRUE, "Unsupported audio format", None, <<>>)
                    ELSE Single("ADE" \in fails, "Failed to embed watermark in audio",
                                [layers |-> <<"ADE">>, format |-> "WAV"],
                                <<"seek0", "seek0", "lib">>)
               [] OTHER ->
                    IF ~gw.ok THEN Single(TRUE, gw.err, None, <<>>)
                    ELSE IF "pypdf" \notin L
                    THEN Single(TRUE, "PDF library not available", None, <<"seek0">>)
                    ELSE Single("PDF" \in fails, "Failed to embed PDF watermark",
                                [layers |-> <<"PDF">>, format |-> "PDF"],
                                <<"seek0", "seek0", "lib">>)
    IN  [result |-> IF r.result.ok
                    THEN Ok([bytes |-> r.result.data, watermark_hash |-> watermark_hash])
                    ELSE r.result,
         tried |-> IF f.type = "image" THEN img.tried ELSE <<>>,
         fallback |-> f.type = "image" /\ img.fallback,
         ops |-> HashOps \o r.ops,
         touched |-> CASE f.type = "image" -> img.touched
                       [] f.type = "pdf"   -> {"pdf_watermarker"}
                       [] OTHER            -> {}]

\* MP3MetadataWatermarker.extract and PDFWatermarker.extract raise when
\* they find nothing; AudioWatermarker.extract never returns empty bytes
\* (a frame of length 0 is rejected)
CodecExtractMark(e, mark) ==
    IF mark = "raise" \/ (mark = "empty" /\ e \in {"AME", "ADE"})
    THEN Raise(CASE e = "AME" -> "No watermark found in MP3 ID3 tags"
                 [] e = "ADE" -> "No watermark detected"
                 [] OTHER     -> "No watermark found in PDF metadata")
    ELSE Ok(EngineText(e, mark))

\* WatermarkService.extract_watermark on a file carrying `marks`
extract_watermark(s, L, f, marks, personalization_hash) ==
    LET img == extract_image_multiple(s, L, f.ext, f.format, marks)
        gw  == GetWatermarker(s, L, f.type, f.ext)
        ade_on == "audio" \in L /\ AdeSupportsFormat(f.ext)
        r == CASE f.type = "image" -> [result |-> img.result, ops |-> img.ops]
               [] f.type = "audio" /\ f.ext = ".mp3" ->
                    IF "mutagen" \notin L
                    THEN [result |-> Raise("mutagen library not available"), ops |-> <<"seek0">>]
                    ELSE [result |-> CodecExtractMark("AME", marks.ame),
                          ops |-> <<"seek0", "seek0", "lib">>]
               [] f.type = "audio" /\ f.ext # ".mp3" ->
                    [result |-> ExtractAudioFrom("audio" \in L, f.ext,
                                                 CodecExtractMark("ADE", marks.ade),
                                                 personalization_hash),
                     ops |-> IF ade_on THEN <<"seek0", "seek0", "lib">> ELSE <<>>]
               [] OTHER ->
                    IF ~gw.ok THEN [result |-> gw, ops |-> <<>>]
                    ELSE IF "pypdf" \notin L
                    THEN [result |-> Raise("PDF library not available"), ops |-> <<"seek0">>]
                    ELSE [result |-> CodecExtractMark("PDF", marks.pdf),
                          ops |-> <<"seek0", "seek0", "lib">>]
    IN  [result |-> r.result,
         probes |-> IF f.type = "image" THEN img.probes ELSE <<>>,
         ops |-> r.ops,
         touched |-> CASE f.type = "image" -> img.touched
                       [] f.type = "pdf"   -> {"pdf_watermarker"}
                       [] OTHER            -> {}]

\* ---- verify_watermark ----

\* The payloads json.loads and WatermarkPayload(**payload_dict) can
\* rebuild from the texts of the model
ParsedPayloads == {EnginePayload(e) : e \in {"CME", "IFE", "ILE"}}

\* json.loads(watermark_str) followed by WatermarkPayload(**payload_dict):
\* the payload, or the exception class raised
ParsePayload(text) ==
    IF \E q \in ParsedPayloads : PayloadText(q) = text
    THEN [ok |-> TRUE, payload |-> CHOOSE q \in ParsedPayloads : PayloadText(q) = text]
    ELSE IF text = <<"[", "1", "]">> THEN [ok |-> FALSE, exc |-> "TypeError"]
    ELSE [ok |-> FALSE, exc |-> "JSONDecodeError"]

\* What nft_service.verify_nft_metadata does: the client of this repository
\* answers "mock"; a client talking to a registry answers "exists" or
\* "absent", or raises.
RegistryAnswers == {"mock", "exists", "absent", "raise"}

\* The record both except clauses of verify_watermark return
FailureRecord(message) ==
    [verified |-> FALSE, watermark_found |-> FALSE, watermark_hash |-> None,
     match |-> FALSE, nft_metadata |-> None, message |-> message]

\* An exception leaving the try block of verify_watermark
Raised(class, message) == [raised |-> class, message |-> message]

\* Lines 105-146 of verify_watermark: parse, hash, look up, report.  The
\* record returned, or the exception raised.
VerifyExtracted(text, registry) ==
    LET parsed == ParsePayload(text)
        extracted_hash == generate_watermark_hash(parsed.payload)
    IN  IF ~parsed.ok
        THEN (IF parsed.exc = "TypeError"
              THEN Raised("TypeError", "argument after ** must be a mapping")
              ELSE Raised("WatermarkExtractionException", "Invalid watermark format"))
        ELSE IF registry = "raise" THEN Raised("Exception", "registry")
        ELSE [verified |-> TRUE, watermark_found |-> TRUE,
              watermark_hash |-> extracted_hash,
              match |-> registry = "exists",
              nft_metadata |-> registry,
              payload |-> parsed.payload,
              message |-> CASE registry = "exists" -> "Watermark verified successfully"
                            [] registry = "mock"   -> "Watermark found in file. Note"
                            [] OTHER               -> "Watermark found in file, but NFT not found"]

\* A variant of HandleExceptions without the last except clause: only the
\* watermarking exceptions are turned into a record.
HandleWatermarkingOnly(outcome) ==
    IF "raised" \notin DOMAIN outcome THEN outcome
    ELSE IF outcome.raised \in {"WatermarkExtractionException", "WatermarkingException"}
    THEN FailureRecord(<<"Watermark extraction error", outcome.message>>)
    ELSE outcome

\* The except clauses of verify_watermark (lines 147-171)
HandleExceptions(outcome) ==
    IF "raised" \notin DOMAIN outcome THEN outcome
    ELSE IF outcome.raised \in {"WatermarkExtractionException", "WatermarkingException"}
    THEN FailureRecord(<<"Watermark extraction error", outcome.message>>)
    ELSE FailureRecord(<<"Verification error", outcome.message>>)

\* Lines 72-88 of verify_watermark for an image on a file carrying `marks`:
\* invisible-watermark, then stegano.  What was extracted, the operations
\* on the caller's reader and the slots read.
VerifyImageProbes(s, L, f, marks) ==
    LET ife_on == Has(s, L, "image_watermarker") /\ IfeSupportsFormat(f.ext)
        ife_hit == ife_on /\ NonEmpty(IfeExtractMark(marks.ife))
        ile_on == ~ife_hit /\ Has(s, L, "image_fallback")
    IN  [got |-> IF ife_hit THEN IfeExtractMark(marks.ife)
                 ELSE IF ile_on /\ NonEmpty(IleExtractMark(marks.ile))
                 THEN IleExtractMark(marks.ile)
                 ELSE Raise("none"),
         ops |-> (IF ife_on THEN <<"seek0">> \o IfeOps ELSE <<>>)
                 \o (IF ile_on
                     THEN <<"seek0", "lib">> \o (IF f.format # "PNG" THEN <<>> ELSE IleOps)
                     ELSE <<>>),
         touched |-> {"image_watermarker"} \cup (IF ~ife_hit THEN {"image_fallback"} ELSE {})]

\* Lines 89-100 of verify_watermark for the other file types: e1 is
\* extract_watermark without personalization, e2 (audio only, when e1
\* raised) extract_watermark with the empty string.
VerifyOtherProbes(e1, e2, f) ==
    IF e1.result.ok \/ f.type # "audio"
    THEN [got |-> e1.result, ops |-> <<"seek0">> \o e1.ops, touched |-> e1.touched]
    ELSE [got |-> e2.result, ops |-> <<"seek0">> \o e1.ops \o <<"seek0">> \o e2.ops,
          touched |-> e1.touched]

\* The try block of verify_watermark after the probes, and its except clauses
VerifyOutcome(pr, registry) ==
    [record |-> HandleExceptions(
                    IF NonEmpty(pr.got) THEN VerifyExtracted(pr.got.data, registry)
                    ELSE Raised("WatermarkExtractionException",
                                "Failed to extract watermark")),
     ops |-> pr.ops,
     touched |-> pr.touched]

\* VerificationService.verify_watermark on a file carrying `marks`: the
\* record returned, the operations on the caller's reader and the slots of
\* its WatermarkService read.
verify_watermark(s, L, f, marks, registry) ==
    VerifyOutcome(IF f.type = "image"
                  THEN VerifyImageProbes(s, L, f, marks)
                  ELSE VerifyOtherProbes(extract_watermark(s, L, f, marks, None),
                                         extract_watermark(s, L, f, marks, Str(<<>>)), f),
                  registry)

\* ---- one engine call on a caller's file ----

\* The caller's files: file type, extension as passed, image format as PIL
\* identifies it.
EngineFiles ==
    [type : {"image"}, ext : {".png", ".jpg", ".gif"}, format : {"PNG", "JPEG"}]
    \cup [type : {"audio"}, ext : {".mp3", ".wav", ".xyz"}, format : {"-"}]
    \cup [type : {"pdf"}, ext : {".pdf", ".txt"}, format : {"-"}]
    \cup [type : {"video"}, ext : {".mp4"}, format : {"-"}]

AllLibs == {"iw", "stegano", "audio", "mutagen", "pypdf"}

\* The libraries whose presence the calls on a file of this type depend on
LibsOf(type) ==
    CASE type = "image" -> {"iw", "stegano"}
      [] type = "audio" -> {"audio", "mutagen"}
      [] type = "pdf"   -> {"pypdf"}
      [] OTHER          -> {}

\* The codecs that read a file of this type
CodecsOf(f) ==
    CASE f.type = "image" -> {"cme", "ife", "ile"}
      [] f.type = "audio" -> IF f.ext = ".mp3" THEN {"ame"} ELSE {"ade"}
      [] f.type = "pdf"   -> {"pdf"}
      [] OTHER            -> {}

\* What the codecs find in a file of this type; the codecs that do not read
\* it find nothing.
MarksOf(f) ==
    {m \in [{"cme", "ife", "ile", "ade", "ame", "pdf"} -> Marks] :
        \A e \in DOMAIN m : e \notin CodecsOf(f) => m[e] = "raise"}

\* The codec calls of an embed that can raise on a file of this type
FailsOf(f) ==
    CASE f.type = "image" -> {"IFE", "ILE", "CME", "ILE_fallback"}
      [] f.type = "audio" -> IF f.ext = ".mp3" THEN {"AME"} ELSE {"ADE"}
      [] f.type = "pdf"   -> {"PDF"}
      [] OTHER            -> {}

EngineInit ==
    /\ file_in \in EngineFiles
    /\ libs \in {L \in SUBSET AllLibs : AllLibs \ L \subseteq LibsOf(file_in.type)}
    /\ slots = [n \in SlotNames |-> "None"]
    /\ reader \in [len : 1..MaxFileLen, pos : {0}]
    /\ call = None

EngineIdle ==
    /\ file_in = None /\ libs = None /\ slots = None /\ reader = None /\ call = None

\* embed_watermark(file, file_type, file_extension, ...)
EmbedCall ==
    /\ call = None
    /\ \E fails \in SUBSET FailsOf(file_in), lib_end \in 0..reader.len,
          num \in (IF file_in.type = "image" THEN {1, REDUNDANT_WATERMARKS}
                   ELSE {REDUNDANT_WATERMARKS}) :
          \E r \in {embed_watermark(slots, libs, file_in, EnginePayload("CME"), num, fails)} :
              /\ call' = [op |-> "embed", num_watermarks |-> num, fails |-> fails,
                          result |-> r.result, tried |-> r.tried, fallback |-> r.fallback]
              /\ slots' = Touch(slots, libs, r.touched)
              /\ reader' = [reader EXCEPT !.pos = PosAfter(reader, r.ops, lib_end)]
    /\ UNCHANGED <<libs, file_in>>

\* extract_watermark(file, file_type, file_extension, personalization_hash)
ExtractCall ==
    /\ call = None
    /\ \E marks \in MarksOf(file_in), lib_end \in 0..reader.len,
          ph \in (IF file_in.type = "audio" /\ file_in.ext # ".mp3"
                  THEN {None, Str(<<>>), Str(HexRun(97))} ELSE {None}) :
          \E r \in {extract_watermark(slots, libs, file_in, marks, ph)} :
              /\ call' = [op |-> "extract", marks |-> marks, personalization_hash |-> ph,
                          result |-> r.result, probes |-> r.probes]
              /\ slots' = Touch(slots, libs, r.touched)
              /\ reader' = [reader EXCEPT !.pos = PosAfter(reader, r.ops, lib_end)]
    /\ UNCHANGED <<libs, file_in>>

\* verify_watermark(file, file_type, file_extension)
VerifyCall ==
    /\ call = None
    /\ \E marks \in MarksOf(file_in), lib_end \in 0..reader.len,
          registry \in RegistryAnswers :
          \E r \in {verify_watermark(slots, libs, file_in, marks, registry)} :
              /\ call' = [op |-> "verify", marks |-> marks, registry |-> registry,
                          record |-> r.record]
              /\ slots' = Touch(slots, libs, r.touched)
              /\ reader' = [reader EXCEPT !.pos = PosAfter(reader, r.ops, lib_end)]
    /\ UNCHANGED <<libs, file_in>>

(***************************************************************************)
(* ---------------- parallel image embeds on one service ----------------- *)
(* api/dependencies.py hands every request the same WatermarkService; its  *)
(* image_watermarker property caches one InvisibleWatermarker, whose       *)
(* encoder is given the watermark by set_watermark and reads it back in    *)
(* encode.  Each thread runs layer 1 of _embed_image_multiple; the other   *)
(* layers work on values local to the call.                                *)
(***************************************************************************)

Threads == {1, 2}

\* watermark_data of the call thread t runs: a different payload per thread
ThreadData(t) == PayloadText([EnginePayload("IFE") EXCEPT !.timestamp = t])

\* The reads of self.image_watermarker in layer 1: the truth test and the
\* supports_format call of line 212, the embed call of line 215
PropertyReads == 3

NoSlot == [state |-> "None", id |-> 0]
NoEncoder == [made |-> FALSE, watermark |-> <<>>]

ParInit ==
    /\ iw_installed \in BOOLEAN
    /\ iw_slot = NoSlot
    /\ encoders = [t \in Threads |-> NoEncoder]
    /\ threads = [t \in Threads |->
                     [pc |-> "check", read |-> 1, inst |-> 0, has_ife |-> FALSE, out |-> <<>>]]

ParIdle ==
    /\ iw_installed = None /\ iw_slot = None /\ encoders = None /\ threads = None

\* image_watermarker, line 32: if self._image_watermarker is None
PropertyCheck(t) ==
    /\ threads[t].pc = "check"
    /\ threads' = [threads EXCEPT ![t].pc =
                       IF iw_slot.state = "None" THEN "construct" ELSE "return"]
    /\ UNCHANGED <<iw_installed, iw_slot, encoders>>

\* image_watermarker, lines 33-38: self._image_watermarker =
\* InvisibleWatermarker(), or False when the constructor raises.  The
\* instance made by thread t is named t.
PropertyConstruct(t) ==
    /\ threads[t].pc = "construct"
    /\ iw_slot' = IF iw_installed THEN [state |-> "instance", id |-> t]
                  ELSE [state |-> "False", id |-> 0]
    /\ encoders' = IF iw_installed
                   THEN [encoders EXCEPT ![t] = [made |-> TRUE, watermark |-> <<>>]]
                   ELSE encoders
    /\ threads' = [threads EXCEPT ![t].pc = "return"]
    /\ UNCHANGED iw_installed

\* image_watermarker, lines 39-41: return None or self._image_watermarker;
\* then layer 1 goes on: a None skips the layer, the third read is the
\* receiver of embed.
PropertyReturn(t) ==
    /\ threads[t].pc = "return"
    /\ threads' = [threads EXCEPT ![t] =
          IF iw_slot.state = "False" THEN [@ EXCEPT !.pc = "done"]
          ELSE IF @.read < PropertyReads
          THEN [@ EXCEPT !.pc = "check", !.read = @ + 1, !.inst = iw_slot.id]
          ELSE [@ EXCEPT !.pc = "set_watermark", !.inst = iw_slot.id]]
    /\ UNCHANGED <<iw_installed, iw_slot, encoders>>

\* InvisibleWatermarker.embed, line 69: self.encoder.set_watermark('bytes', watermark_data)
SetWatermark(t) ==
    /\ threads[t].pc = "set_watermark"
    /\ encoders' = [encoders EXCEPT ![threads[t].inst].watermark = ThreadData(t)]
    /\ threads' = [threads EXCEPT ![t].pc = "encode"]
    /\ UNCHANGED <<iw_installed, iw_slot>>

\* InvisibleWatermarker.embed, lines 70-82: self.encoder.encode(img_array,
\* 'dwtDct') embeds the watermark the encoder holds; the image is saved and
\* returned.
Encode(t) ==
    /\ threads[t].pc = "encode"
    /\ threads' = [threads EXCEPT ![t] =
                       [@ EXCEPT !.pc = "done", !.has_ife = TRUE,
                                 !.out = encoders[threads[t].inst].watermark]]
    /\ UNCHANGED <<iw_installed, iw_slot, encoders>>

(***************************************************************************)
(* --------------------- MP3MetadataWatermarker.embed -------------------- *)
(* core/watermarking/audio/mp3_metadata_watermark.py, lines 24-97, step by *)
(* step, with the step that fails chosen by the input.                     *)
(***************************************************************************)

\* The step of embed at which an exception is raised ("none": no step)
Mp3Failures == {"none", "create", "copy", "load", "tag", "save", "read"}

Mp3Files == {<<255, 251>>, <<73, 68, 51>>}

\* A payload whose base64 text needs the second COMM frame
MidDataLen == 750
MidData == AsSeq([i \in 1..MidDataLen |-> 97 + (i % 26)])

Mp3Data == {<<65>>, <<123, 255>>, MidData, LongData}

\* The character decoded at position i of b, as a sequence of length 0 or 1
Utf8CharAt(b, i) ==
    IF b[i] < 128 THEN <<b[i]>>
    ELSE IF b[i] >= 194 /\ b[i] <= 223 /\ i < Len(b) /\ b[i + 1] >= 128 /\ b[i + 1] <= 191
    THEN <<(b[i] - 192) * 64 + (b[i + 1] - 128)>>
    ELSE <<>>

\* bytes.decode('utf-8', errors='ignore') of b[lo..hi] on the bytes of the
\* model: ASCII and two-byte sequences decode, every other byte is dropped
RECURSIVE Utf8DecodeRange(_, _, _)
Utf8DecodeRange(b, lo, hi) ==
    IF lo > hi THEN <<>>
    ELSE IF lo = hi THEN Utf8CharAt(b, lo)
    ELSE LET mid == (lo + hi) \div 2
         IN  AsSeq(Utf8DecodeRange(b, lo, mid) \o Utf8DecodeRange(b, mid + 1, hi))

Utf8DecodeIgnore(b) == Utf8DecodeRange(b, 1, Len(b))

\* The frames embed adds (lines 59-81): COMM WMPayload, USLT WMHash and,
\* for a long watermark, COMM WMPayload_2
Mp3Tags(watermark_data) ==
    LET watermark_b64 == B64Encode(watermark_data)
    IN  [COMM |-> Slice(watermark_b64, 0, 800),
         USLT |-> Slice(Utf8DecodeIgnore(watermark_data), 0, 500),
         COMM_2 |-> IF Len(watermark_b64) > 800
                    THEN <<Slice(watermark_b64, 800, 1600)>> ELSE <<>>]

WATERMARK_TAG == "WMPayload"
WATERMARK_TAG_2 == "WMPayload_2"
MP3_HASH_TAG == "WMHash"

\* An ID3 frame: frame id, description, text (the language is 'eng'
\* throughout)
Frame(id, desc, text) == [id |-> id, desc |-> desc, text |-> text]

\* The frames a caller's MP3 already carries: none, a comment, a comment
\* and the frames of an earlier embed
Mp3ExistingFrames ==
    { {},
      {Frame("COMM", "Notes", <<104, 105>>)},
      {Frame("COMM", "Notes", <<104, 105>>), Frame("COMM", WATERMARK_TAG, <<81, 81, 61, 61>>),
       Frame("COMM", WATERMARK_TAG_2, <<81, 81, 61, 61>>), Frame("USLT", MP3_HASH_TAG, <<66>>)} }

\* A variant of TagsAdd that starts a new tag holding only the added frame
TagsAddAlone(frames, f) == {f}

\* audio_file.tags.add(frame): a frame with the same id and description
\* (and language) is replaced, the other frames stay
TagsAdd(frames, f) == {g \in frames : ~(g.id = f.id /\ g.desc = f.desc)} \cup {f}

\* Lines 59-81 on the tags of the loaded file
Mp3AddFrames(frames, watermark_data) ==
    LET t == Mp3Tags(watermark_data)
        with_comm == TagsAdd(frames, Frame("COMM", WATERMARK_TAG, t.COMM))
        with_uslt == TagsAdd(with_comm, Frame("USLT", MP3_HASH_TAG, t.USLT))
    IN  IF t.COMM_2 = <<>> THEN with_uslt
        ELSE TagsAdd(with_uslt, Frame("COMM", WATERMARK_TAG_2, t.COMM_2[1]))

\* self.WATERMARK_TAG in frame.desc, on the descriptions of the model
HasWatermarkTag(desc) == desc \in {WATERMARK_TAG, WATERMARK_TAG_2}

\* The text of the frame with this id and description, <<>> without one
FrameText(frames, id, desc) ==
    IF \E f \in frames : f.id = id /\ f.desc = desc
    THEN (CHOOSE f \in frames : f.id = id /\ f.desc = desc).text
    ELSE <<>>

\* Lines 143-156: the texts of the COMM frames whose description contains
\* WMPayload, joined in the order of their sorted keys
\* ('COMM:WMPayload:eng' < 'COMM:WMPayload_2:eng')
CombinedComments(frames) ==
    FrameText(frames, "COMM", WATERMARK_TAG) \o FrameText(frames, "COMM", WATERMARK_TAG_2)

\* From what the first two loops left (found), lines 141-161: the joined
\* COMM frames are tried only when nothing was found
Mp3ExtractRest(frames, found) ==
    LET has3 == \E f \in frames : f.id = "COMM" /\ HasWatermarkTag(f.desc)
        d3 == B64Decode(CombinedComments(frames))
        third == IF found # <<>> \/ ~has3 THEN found
                 ELSE IF d3.ok THEN d3.data ELSE Utf8Encode(CombinedComments(frames))
    IN  IF third = <<>> THEN Raise("No watermark found in MP3 ID3 tags") ELSE Ok(third)

\* From what the COMM loop left (found), lines 128-139: the USLT frame
\* described WMHash
Mp3ExtractUslt(frames, found) ==
    IF found # <<>> THEN found
    ELSE Utf8Encode(FrameText(frames, "USLT", MP3_HASH_TAG))

\* Lines 116-126: the COMM frame described exactly WMPayload, base64-decoded
Mp3ExtractComm(frames) ==
    LET d == B64Decode(FrameText(frames, "COMM", WATERMARK_TAG))
    IN  IF d.ok THEN d.data ELSE <<>>

\* MP3MetadataWatermarker.extract on a file with these frames (mutagen
\* installed)
Mp3Extract(frames) ==
    IF frames = {} THEN Raise("No ID3 tags found in MP3 file")
    ELSE Mp3ExtractRest(frames, Mp3ExtractUslt(frames, Mp3ExtractComm(frames)))

NoTemp == [exists |-> FALSE, content |-> <<>>, tagged |-> FALSE]
NoLocals == [exc |-> FALSE, tagged |-> FALSE, read |-> FALSE]

Mp3Init ==
    /\ mp3_in \in [mutagen : BOOLEAN, file : Mp3Files, frames : Mp3ExistingFrames,
                   watermark_data : Mp3Data, fail : Mp3Failures]
    /\ mp3_pc = "start"
    /\ mp3_tmp = NoTemp
    /\ mp3_local = NoLocals
    /\ mp3_result = None
    /\ mp3_extracted = None

Mp3Idle ==
    /\ mp3_in = None /\ mp3_pc = None /\ mp3_tmp = None /\ mp3_local = None
    /\ mp3_result = None /\ mp3_extracted = None

\* Lines 26-29: without mutagen the call raises before anything is created
Mp3Start ==
    /\ mp3_pc = "start"
    /\ IF mp3_in.mutagen
       THEN mp3_pc' = "create" /\ mp3_result' = mp3_result
       ELSE /\ mp3_pc' = "returned"
            /\ mp3_result' = Raise("mutagen library not available")
    /\ UNCHANGED <<mp3_extracted, mp3_in, mp3_tmp, mp3_local>>

\* Line 42: NamedTemporaryFile(delete=False, suffix='.mp3')
Mp3CreateTemp ==
    /\ mp3_pc = "create"
    /\ IF mp3_in.fail = "create"
       THEN mp3_pc' = "except" /\ mp3_tmp' = mp3_tmp
       ELSE mp3_pc' = "copy" /\ mp3_tmp' = [mp3_tmp EXCEPT !.exists = TRUE]
    /\ UNCHANGED <<mp3_extracted, mp3_in, mp3_local, mp3_result>>

\* Lines 43-45: file.seek(0); shutil.copyfileobj(file, tmp_file), inside the
\* with block and before the inner try: an exception closes the temporary
\* file (delete=False keeps it) and goes to the outer except clause
Mp3CopyIn ==
    /\ mp3_pc = "copy"
    /\ IF mp3_in.fail = "copy"
       THEN mp3_pc' = "except" /\ mp3_tmp' = mp3_tmp
       ELSE mp3_pc' = "load" /\ mp3_tmp' = [mp3_tmp EXCEPT !.content = mp3_in.file]
    /\ UNCHANGED <<mp3_extracted, mp3_in, mp3_local, mp3_result>>

\* Lines 49-81: MP3(tmp_path), add_tags, the frames added to audio_file.tags
Mp3LoadAndTag ==
    /\ mp3_pc = "load"
    /\ IF mp3_in.fail \in {"load", "tag"}
       THEN mp3_pc' = "finally" /\ mp3_local' = [mp3_local EXCEPT !.exc = TRUE]
       ELSE mp3_pc' = "save" /\ mp3_local' = [mp3_local EXCEPT !.tagged = TRUE]
    /\ UNCHANGED <<mp3_extracted, mp3_in, mp3_tmp, mp3_result>>

\* Line 84: audio_file.save(v1=2) writes the tags into the temporary file
Mp3Save ==
    /\ mp3_pc = "save"
    /\ IF mp3_in.fail = "save"
       THEN /\ mp3_pc' = "finally"
            /\ mp3_local' = [mp3_local EXCEPT !.exc = TRUE]
            /\ mp3_tmp' = mp3_tmp
       ELSE /\ mp3_pc' = "read"
            /\ mp3_tmp' = [mp3_tmp EXCEPT !.tagged = TRUE]
            /\ mp3_local' = mp3_local
    /\ UNCHANGED <<mp3_extracted, mp3_in, mp3_result>>

\* Lines 87-90: open(tmp_path, 'rb'), f.read(), return result
Mp3ReadBack ==
    /\ mp3_pc = "read"
    /\ mp3_pc' = "finally"
    /\ mp3_local' = IF mp3_in.fail = "read" THEN [mp3_local EXCEPT !.exc = TRUE]
                    ELSE [mp3_local EXCEPT !.read = TRUE]
    /\ UNCHANGED <<mp3_extracted, mp3_in, mp3_tmp, mp3_result>>

\* Lines 91-94: finally: if os.path.exists(tmp_path): os.unlink(tmp_path);
\* then the return of line 90, or the exception goes on to the outer except
Mp3Finally ==
    /\ mp3_pc = "finally"
    /\ mp3_tmp' = [mp3_tmp EXCEPT !.exists = FALSE]
    /\ IF mp3_local.exc
       THEN mp3_pc' = "except" /\ mp3_result' = mp3_result
       ELSE /\ mp3_pc' = "returned"
            /\ mp3_result' = Ok([file |-> mp3_tmp.content,
                                 frames |-> Mp3AddFrames(mp3_in.frames,
                                                         mp3_in.watermark_data)])
    /\ UNCHANGED <<mp3_extracted, mp3_in, mp3_local>>

\* Lines 96-97: except Exception as e: raise WatermarkingException(...)
Mp3Except ==
    /\ mp3_pc = "except"
    /\ mp3_pc' = "returned"
    /\ mp3_result' = Raise("Failed to embed MP3 metadata watermark")
    /\ UNCHANGED <<mp3_extracted, mp3_in, mp3_tmp, mp3_local>>

\* MP3MetadataWatermarker.extract on the bytes embed returned, or on those
\* bytes after another tool removed some of the frames embed wrote
Mp3ExtractCall ==
    /\ mp3_pc = "returned" /\ mp3_result.ok /\ mp3_extracted = None
    /\ \E dropped \in SUBSET {WATERMARK_TAG, WATERMARK_TAG_2, MP3_HASH_TAG} :
          mp3_extracted' =
              [dropped |-> dropped,
               result |-> Mp3Extract({f \in mp3_result.data.frames : f.desc \notin dropped})]
    /\ UNCHANGED <<mp3_in, mp3_pc, mp3_tmp, mp3_local, mp3_result>>

(***************************************************************************)
(* ---------------------------- PDFWatermarker --------------------------- *)
(* core/watermarking/pdf/pdf_watermark.py.  A PDF is taken as its Info      *)
(* dictionary (key, text) and its pages, each page the sequence of its      *)
(* content streams; text is a sequence of code points.                      *)
(***************************************************************************)

Entry(key, value) == [key |-> key, value |-> value]

DictHas(d, key) == \E e \in d : e.key = key
DictGet(d, key) == (CHOOSE e \in d : e.key = key).value
\* metadata[key] = value
DictSet(d, key, value) == {e \in d : e.key # key} \cup {Entry(key, value)}

\* "Report"
ReportTitle == <<82, 101, 112, 111, 114, 116>>

\* The Info dictionaries of the caller's PDFs: none, a title, a title with
\* an author and an empty subject, an empty title, the entries of an
\* earlier embed
PdfInfos ==
    { {},
      {Entry("/Title", ReportTitle)},
      {Entry("/Title", ReportTitle), Entry("/Author", <<65, 110, 110>>), Entry("/Subject", <<>>)},
      {Entry("/Title", <<>>), Entry("/Author", <<65, 110, 110>>)},
      {Entry("/Author", <<65, 110, 110>>), Entry("/WMHash", <<81, 81, 61, 61>>),
       Entry("/WMPayload", <<66>>)} }

PdfPages == { << <<"c1">> >>, << <<"c1">>, <<"c2", "c3">> >> }

\* Payloads: short ones, a JSON string literal, one needing base64 text
\* beyond 800 characters, one beyond 2000
PdfData == {<<65>>, <<123, 255>>, <<34, 65, 34>>, MidData, LongData}

\* Lines 73-78: for key, value in pdf_reader.metadata.items(): if value:
\* metadata[key] = str(value)
CopyInfo(info) == {e \in info : e.value # <<>>}

\* Lines 69-90: the metadata handed to pdf_writer.add_metadata
PdfMetadata(info, watermark_data) ==
    LET watermark_b64 == B64Encode(watermark_data)
        m1 == DictSet(CopyInfo(info), "/WMHash", Slice(watermark_b64, 0, 2000))
        m2 == DictSet(m1, "/WMPayload", Slice(Utf8DecodeIgnore(watermark_data), 0, 1000))
    IN  IF DictHas(m2, "/Title")
        THEN DictSet(m2, "/Title",
                     DictGet(m2, "/Title") \o <<32, 91>> \o Slice(watermark_b64, 0, 16) \o <<93>>)
        ELSE DictSet(m2, "/Title", Slice(watermark_b64, 0, 100))

\* Line 95: REPORTLAB_AVAILABLE and self.logo_path and self.logo_path.exists()
OverlayOn(env) == env.reportlab /\ env.logo

\* page.merge_page(watermark_page)
MergePage(page) == Append(page, "AquaSeal overlay")

\* A variant of PdfPagesOut that writes the pages in reverse order
PdfPagesReversed(env, pages) == [i \in DOMAIN pages |-> pages[Len(pages) + 1 - i]]

\* Lines 64-66 and 94-108: the pages of pdf_writer when it is written.
\* _add_logo_watermark merges the overlay into page after page (lines
\* 169-171); when it raises at page merge_fail (0: it does not raise) the
\* pages before that one stay merged and embed writes the same pdf_writer.
PdfPagesOut(env, pages) ==
    [i \in DOMAIN pages |->
        IF OverlayOn(env) /\ (env.merge_fail = 0 \/ i < env.merge_fail)
        THEN MergePage(pages[i]) ELSE pages[i]]

\* PDFWatermarker.embed
PdfEmbed(env, pdf, watermark_data) ==
    IF ~env.pypdf
    THEN Raise("PDF library not available. Please install pypdf: pip install pypdf")
    ELSE IF env.unreadable THEN Raise("Failed to embed PDF watermark")
    ELSE Ok([info |-> PdfMetadata(pdf.info, watermark_data),
             pages |-> PdfPagesOut(env, pdf.pages)])

\* json.loads(watermark_str).encode('utf-8') on the texts of the model: a
\* JSON string literal without escapes gives its characters; any other
\* text raises (not JSON, or JSON that is not a string)
JsonLoadsStr(text) ==
    IF Len(text) >= 2 /\ text[1] = 34 /\ text[Len(text)] = 34
       /\ \A i \in 2..(Len(text) - 1) : text[i] \notin {34, 92} /\ text[i] >= 32
    THEN [ok |-> TRUE, str |-> Slice(text, 1, Len(text) - 1)]
    ELSE [ok |-> FALSE]

\* str.rfind(c) of one character: 0-based, -1 if none
RFindChar(text, c) ==
    LET hits == {i \in DOMAIN text : text[i] = c}
    IN  IF hits = {} THEN -1 ELSE (CHOOSE i \in hits : \A o \in hits : o <= i) - 1

\* Lines 212-221: the last bracketed part of the title when it has at
\* least 16 characters, <<>> otherwise
TitleHash(title) ==
    LET start == RFindChar(title, 91) + 1
        end == RFindChar(title, 93)
    IN  IF RFindChar(title, 91) >= 0 /\ end >= 0 /\ end > start /\ end - start >= 16
        THEN Slice(title, start, end) ELSE <<>>

\* Lines 223-231: base64.b64decode(watermark_b64), else the text as bytes
DecodeOrRaw(watermark_b64) ==
    IF watermark_b64 = <<>> THEN Raise("No watermark found in PDF metadata")
    ELSE IF B64Decode(watermark_b64).ok THEN Ok(B64Decode(watermark_b64).data)
    ELSE Ok(Utf8Encode(watermark_b64))

\* A variant of PdfExtractFrom that reads the title before /WMHash
PdfExtractTitleFirst(metadata) ==
    IF DictHas(metadata, "/Title") /\ TitleHash(DictGet(metadata, "/Title")) # <<>>
    THEN DecodeOrRaw(TitleHash(DictGet(metadata, "/Title")))
    ELSE IF DictHas(metadata, "/WMHash") THEN DecodeOrRaw(DictGet(metadata, "/WMHash"))
    ELSE Raise("No watermark found in PDF metadata")

\* Lines 198-231 on the metadata copied from the file
PdfExtractFrom(metadata) ==
    IF DictHas(metadata, "/WMHash") THEN DecodeOrRaw(DictGet(metadata, "/WMHash"))
    ELSE IF DictHas(metadata, "/WMPayload")
    THEN (IF JsonLoadsStr(DictGet(metadata, "/WMPayload")).ok
          THEN Ok(Utf8Encode(JsonLoadsStr(DictGet(metadata, "/WMPayload")).str))
          ELSE Ok(Utf8Encode(DictGet(metadata, "/WMPayload"))))
    ELSE IF DictHas(metadata, "/Title")
    THEN DecodeOrRaw(TitleHash(DictGet(metadata, "/Title")))
    ELSE Raise("No watermark found in PDF metadata")

\* PDFWatermarker.extract on a file with this Info dictionary
PdfExtract(env, info) ==
    IF ~env.pypdf
    THEN Raise("PDF library not available. Please install pypdf: pip install pypdf")
    ELSE PdfExtractFrom(CopyInfo(info))

PdfEnvs == [pypdf : BOOLEAN, reportlab : BOOLEAN, logo : BOOLEAN, unreadable : BOOLEAN,
            merge_fail : 0..2]

PdfInit ==
    /\ pdf_in \in [env : {e \in PdfEnvs : (e.merge_fail > 0 => OverlayOn(e))
                                          /\ (e.unreadable => e.pypdf)},
                   pdf : [info : PdfInfos, pages : PdfPages],
                   watermark_data : PdfData]
    /\ pdf_out = None
    /\ pdf_extracted = None

PdfIdle ==
    /\ pdf_in = None /\ pdf_out = None /\ pdf_extracted = None

\* PDFWatermarker.embed(file, watermark_data)
PdfEmbedCall ==
    /\ pdf_out = None
    /\ pdf_out' = PdfEmbed(pdf_in.env, pdf_in.pdf, pdf_in.watermark_data)
    /\ UNCHANGED <<pdf_in, pdf_extracted>>

\* PDFWatermarker.extract on the bytes embed returned, or on those bytes
\* after another tool removed some of the entries embed wrote
PdfExtractCall ==
    /\ pdf_out # None /\ pdf_out.ok /\ pdf_extracted = None
    /\ \E dropped \in SUBSET {"/WMHash", "/WMPayload", "/Title"} :
          pdf_extracted' =
              [dropped |-> dropped,
               result |-> PdfExtract(pdf_in.env,
                                     {e \in pdf_out.data.info : e.key \notin dropped})]
    /\ UNCHANGED <<pdf_in, pdf_out>>

(***************************************************************************)
(* ------------------ MetadataWatermarker: JPEG and TIFF ----------------- *)
(* core/watermarking/metadata/metadata_watermark.py.  An image is taken as *)
(* its format and its EXIF entries (tag, value); a value is a str, bytes   *)
(* or an (encoding, text) tuple.                                           *)
(***************************************************************************)

UserComment == 37510
ImageDescription == 270

Val(type, v) == [type |-> type, v |-> v]

\* "WM"
WATERMARK_TAG_PREFIX == <<87, 77>>

\* The EXIF of the caller's images: none, a camera make, a make with a
\* description and a user comment of its own
ExifInputs ==
    { {},
      {Entry(271, Val("str", <<67, 97, 109>>))},
      {Entry(271, Val("str", <<67, 97, 109>>)),
       Entry(ImageDescription, Val("str", <<111, 108, 100>>)),
       Entry(UserComment, Val("bytes", <<81, 81, 61, 61>>))} }

ExifData == {<<65>>, <<123, 255>>, <<34, 65, 34>>, MidData, LongData}

\* A variant of embed_jpeg_metadata that writes its two tags into an empty EXIF
embed_jpeg_metadata_fresh(exif, watermark_b64) ==
    DictSet(DictSet({}, UserComment, Val("str", Slice(watermark_b64, 0, 2000))),
            ImageDescription,
            Val("str", WATERMARK_TAG_PREFIX \o <<58>> \o Slice(watermark_b64, 0, 500)))

\* _embed_jpeg_metadata: the EXIF the image is saved with
embed_jpeg_metadata(exif, watermark_b64) ==
    DictSet(DictSet(exif, UserComment, Val("str", Slice(watermark_b64, 0, 2000))),
            ImageDescription,
            Val("str", WATERMARK_TAG_PREFIX \o <<58>> \o Slice(watermark_b64, 0, 500)))

\* _embed_tiff_metadata: exif_data, a copy of the image's EXIF, gets
\* UserComment = watermark_str[:2000]; the image is saved with
\* exif=image.getexif(), the EXIF it was opened with
embed_tiff_metadata(exif, watermark_str) ==
    LET exif_data == DictSet(exif, UserComment, Val("str", Slice(watermark_str, 0, 2000)))
        saved == exif
    IN  saved

\* MetadataWatermarker.embed on a JPEG or TIFF image: format and EXIF of
\* the bytes returned
ExifEmbed(image, watermark_data) ==
    IF image.format = "JPEG"
    THEN Ok([format |-> "JPEG",
             exif |-> embed_jpeg_metadata(image.exif, B64Encode(watermark_data))])
    ELSE Ok([format |-> "TIFF",
             exif |-> embed_tiff_metadata(image.exif, Utf8DecodeIgnore(watermark_data))])

\* Lines 196-204: the text of UserComment by the type of its value, <<>>
\* for None
UserCommentText(value) ==
    CASE value.type = "bytes" -> Utf8DecodeIgnore(value.v)
      [] value.type = "str"   -> value.v
      [] OTHER                -> value.v

\* Lines 207-210: ImageDescription when it is a str starting with "WM":
\* the part after the first colon
DescriptionText(value) ==
    IF value.type = "str" /\ StartsWith(value.v, WATERMARK_TAG_PREFIX)
       /\ \E i \in DOMAIN value.v : value.v[i] = 58
    THEN Slice(value.v, FindByte(value.v, 58) + 1, Len(value.v))
    ELSE <<>>

\* Lines 212-222: base64, else a JSON string, else the text as bytes
DecodeWatermarkStr(watermark_str) ==
    IF B64Decode(watermark_str).ok THEN B64Decode(watermark_str).data
    ELSE IF JsonLoadsStr(watermark_str).ok THEN Utf8Encode(JsonLoadsStr(watermark_str).str)
    ELSE Utf8Encode(watermark_str)

\* What lines 192-210 leave in watermark_str (<<>> for None or empty)
ExifWatermarkStr(exif) ==
    IF DictHas(exif, UserComment) /\ UserCommentText(DictGet(exif, UserComment)) # <<>>
    THEN UserCommentText(DictGet(exif, UserComment))
    ELSE IF DictHas(exif, ImageDescription)
    THEN DescriptionText(DictGet(exif, ImageDescription))
    ELSE <<>>

\* MetadataWatermarker.extract on a JPEG or TIFF file (_extract_tiff_metadata
\* is _extract_jpeg_metadata); every failure is wrapped by extract
extract_jpeg_metadata(exif) ==
    IF exif = {} \/ ExifWatermarkStr(exif) = <<>>
    THEN Raise("Failed to extract metadata watermark")
    ELSE Ok(DecodeWatermarkStr(ExifWatermarkStr(exif)))

ExifInit ==
    /\ exif_in \in [image : [format : {"JPEG", "TIFF"}, exif : ExifInputs],
                    watermark_data : ExifData]
    /\ exif_out = None
    /\ exif_extracted = None

ExifIdle ==
    /\ exif_in = None /\ exif_out = None /\ exif_extracted = None

\* MetadataWatermarker.embed(file, watermark_data)
ExifEmbedCall ==
    /\ exif_out = None
    /\ exif_out' = ExifEmbed(exif_in.image, exif_in.watermark_data)
    /\ UNCHANGED <<exif_in, exif_extracted>>

\* MetadataWatermarker.extract on the bytes embed returned, or on those
\* bytes after another tool removed some of the EXIF entries
ExifExtractCall ==
    /\ exif_out # None /\ exif_out.ok /\ exif_extracted = None
    /\ \E dropped \in SUBSET {UserComment, ImageDescription} :
          exif_extracted' =
              [dropped |-> dropped,
               result |-> extract_jpeg_metadata(
                              {e \in exif_out.data.exif : e.key \notin dropped})]
    /\ UNCHANGED <<exif_in, exif_out>>

(***************************************************************************)
(* ----------------------- specifications ------------------------------- *)
(***************************************************************************)
InitHash == HashInit /\ PngIdle /\ AdeIdle /\ EngineIdle /\ ParIdle /\ Mp3Idle /\ PdfIdle /\ ExifIdle /\ DctIdle /\ QimIdle /\ ChunkIdle /\ SyncIdle
NextHash == GenerateWatermarkHash /\ UNCHANGED <<pngVars, adeVars, engineVars, parVars, mp3Vars, pdfVars, exifVars, dctVars, qimVars, chunkVars, syncVars>>
SpecHash == InitHash /\ [][NextHash]_vars

InitPng == PngInit /\ HashIdle /\ AdeIdle /\ EngineIdle /\ ParIdle /\ Mp3Idle /\ PdfIdle /\ ExifIdle /\ DctIdle /\ QimIdle /\ ChunkIdle /\ SyncIdle
NextPng ==
    \/ CmeEmbedPng /\ UNCHANGED <<hashVars, adeVars, engineVars, parVars, mp3Vars, pdfVars, exifVars, dctVars, qimVars, chunkVars, syncVars>>
    \/ CmeExtractPng /\ UNCHANGED <<hashVars, adeVars, engineVars, parVars, mp3Vars, pdfVars, exifVars, dctVars, qimVars, chunkVars, syncVars>>
SpecPng == InitPng /\ [][NextPng]_vars

InitAde == AdeInit /\ HashIdle /\ PngIdle /\ EngineIdle /\ ParIdle /\ Mp3Idle /\ PdfIdle /\ ExifIdle /\ DctIdle /\ QimIdle /\ ChunkIdle /\ SyncIdle
NextAde ==
    \/ EmbedAudioCall /\ UNCHANGED <<hashVars, pngVars, engineVars, parVars, mp3Vars, pdfVars, exifVars, dctVars, qimVars, chunkVars, syncVars>>
    \/ ExtractAudioCall /\ UNCHANGED <<hashVars, pngVars, engineVars, parVars, mp3Vars, pdfVars, exifVars, dctVars, qimVars, chunkVars, syncVars>>
SpecAde == InitAde /\ [][NextAde]_vars

InitEngine == EngineInit /\ HashIdle /\ PngIdle /\ AdeIdle /\ ParIdle /\ Mp3Idle /\ PdfIdle /\ ExifIdle /\ DctIdle /\ QimIdle /\ ChunkIdle /\ SyncIdle
NextEngine ==
    \/ EmbedCall /\ UNCHANGED <<hashVars, pngVars, adeVars, parVars, mp3Vars, pdfVars, exifVars, dctVars, qimVars, chunkVars, syncVars>>
    \/ ExtractCall /\ UNCHANGED <<hashVars, pngVars, adeVars, parVars, mp3Vars, pdfVars, exifVars, dctVars, qimVars, chunkVars, syncVars>>
    \/ VerifyCall /\ UNCHANGED <<hashVars, pngVars, adeVars, parVars, mp3Vars, pdfVars, exifVars, dctVars, qimVars, chunkVars, syncVars>>
SpecEngine == InitEngine /\ [][NextEngine]_vars

\* Two threads, each running one image embed on the shared service
InitParallel == ParInit /\ HashIdle /\ PngIdle /\ AdeIdle /\ EngineIdle /\ Mp3Idle /\ PdfIdle /\ ExifIdle /\ DctIdle /\ QimIdle /\ ChunkIdle /\ SyncIdle
NextParallel ==
    \/ \E t \in Threads : PropertyCheck(t) /\ UNCHANGED <<hashVars, pngVars, adeVars, engineVars, mp3Vars, pdfVars, exifVars, dctVars, qimVars, chunkVars, syncVars>>
    \/ \E t \in Threads : PropertyConstruct(t) /\ UNCHANGED <<hashVars, pngVars, adeVars, engineVars, mp3Vars, pdfVars, exifVars, dctVars, qimVars, chunkVars, syncVars>>
    \/ \E t \in Threads : PropertyReturn(t) /\ UNCHANGED <<hashVars, pngVars, adeVars, engineVars, mp3Vars, pdfVars, exifVars, dctVars, qimVars, chunkVars, syncVars>>
    \/ \E t \in Threads : SetWatermark(t) /\ UNCHANGED <<hashVars, pngVars, adeVars, engineVars, mp3Vars, pdfVars, exifVars, dctVars, qimVars, chunkVars, syncVars>>
    \/ \E t \in Threads : Encode(t) /\ UNCHANGED <<hashVars, pngVars, adeVars, engineVars, mp3Vars, pdfVars, exifVars, dctVars, qimVars, chunkVars, syncVars>>
SpecParallel == InitParallel /\ [][NextParallel]_vars

\* One call of MP3MetadataWatermarker.embed
InitMp3 == Mp3Init /\ HashIdle /\ PngIdle /\ AdeIdle /\ EngineIdle /\ ParIdle /\ PdfIdle /\ ExifIdle /\ DctIdle /\ QimIdle /\ ChunkIdle /\ SyncIdle
NextMp3 ==
    \/ Mp3Start /\ UNCHANGED <<hashVars, pngVars, adeVars, engineVars, parVars, pdfVars, exifVars, dctVars, qimVars, chunkVars, syncVars>>
    \/ Mp3CreateTemp /\ UNCHANGED <<hashVars, pngVars, adeVars, engineVars, parVars, pdfVars, exifVars, dctVars, qimVars, chunkVars, syncVars>>
    \/ Mp3CopyIn /\ UNCHANGED <<hashVars, pngVars, adeVars, engineVars, parVars, pdfVars, exifVars, dctVars, qimVars, chunkVars, syncVars>>
    \/ Mp3LoadAndTag /\ UNCHANGED <<hashVars, pngVars, adeVars, engineVars, parVars, pdfVars, exifVars, dctVars, qimVars, chunkVars, syncVars>>
    \/ Mp3Save /\ UNCHANGED <<hashVars, pngVars, adeVars, engineVars, parVars, pdfVars, exifVars, dctVars, qimVars, chunkVars, syncVars>>
    \/ Mp3ReadBack /\ UNCHANGED <<hashVars, pngVars, adeVars, engineVars, parVars, pdfVars, exifVars, dctVars, qimVars, chunkVars, syncVars>>
    \/ Mp3Finally /\ UNCHANGED <<hashVars, pngVars, adeVars, engineVars, parVars, pdfVars, exifVars, dctVars, qimVars, chunkVars, syncVars>>
    \/ Mp3Except /\ UNCHANGED <<hashVars, pngVars, adeVars, engineVars, parVars, pdfVars, exifVars, dctVars, qimVars, chunkVars, syncVars>>
    \/ Mp3ExtractCall /\ UNCHANGED <<hashVars, pngVars, adeVars, engineVars, parVars, pdfVars, exifVars, dctVars, qimVars, chunkVars, syncVars>>
SpecMp3 == InitMp3 /\ [][NextMp3]_vars

\* One PDFWatermarker.embed, then one extract
InitPdf == PdfInit /\ HashIdle /\ PngIdle /\ AdeIdle /\ EngineIdle /\ ParIdle /\ Mp3Idle /\ ExifIdle /\ DctIdle /\ QimIdle /\ ChunkIdle /\ SyncIdle
NextPdf ==
    \/ PdfEmbedCall /\ UNCHANGED <<hashVars, pngVars, adeVars, engineVars, parVars, mp3Vars, exifVars, dctVars, qimVars, chunkVars, syncVars>>
    \/ PdfExtractCall /\ UNCHANGED <<hashVars, pngVars, adeVars, engineVars, parVars, mp3Vars, exifVars, dctVars, qimVars, chunkVars, syncVars>>
SpecPdf == InitPdf /\ [][NextPdf]_vars

\* One MetadataWatermarker.embed on a JPEG or TIFF image, then one extract
InitExif == ExifInit /\ HashIdle /\ PngIdle /\ AdeIdle /\ EngineIdle /\ ParIdle /\ Mp3Idle /\ PdfIdle /\ DctIdle /\ QimIdle /\ ChunkIdle /\ SyncIdle
NextExif ==
    \/ ExifEmbedCall /\ UNCHANGED <<hashVars, pngVars, adeVars, engineVars, parVars, mp3Vars, pdfVars, dctVars, qimVars, chunkVars, syncVars>>
    \/ ExifExtractCall /\ UNCHANGED <<hashVars, pngVars, adeVars, engineVars, parVars, mp3Vars, pdfVars, dctVars, qimVars, chunkVars, syncVars>>
SpecExif == InitExif /\ [][NextExif]_vars

\* One AudioWatermarker._embed_in_dct on a frame whose length is around the
\* capacity of the samples
InitDct == DctInit /\ HashIdle /\ PngIdle /\ AdeIdle /\ EngineIdle /\ ParIdle /\ Mp3Idle /\ PdfIdle /\ ExifIdle /\ QimIdle /\ ChunkIdle /\ SyncIdle
NextDct ==
    \/ EmbedInDctCall /\ UNCHANGED <<hashVars, pngVars, adeVars, engineVars, parVars, mp3Vars, pdfVars, exifVars, qimVars, chunkVars, syncVars>>
SpecDct == InitDct /\ [][NextDct]_vars

\* One coefficient through the modulation of embed and the decoding of extract
InitQim == QimInit /\ HashIdle /\ PngIdle /\ AdeIdle /\ EngineIdle /\ ParIdle /\ Mp3Idle /\ PdfIdle /\ ExifIdle /\ DctIdle /\ ChunkIdle /\ SyncIdle
NextQim ==
    \/ QimModulateStep /\ UNCHANGED <<hashVars, pngVars, adeVars, engineVars, parVars, mp3Vars, pdfVars, exifVars, dctVars, chunkVars, syncVars>>
    \/ QimDecodeStep /\ UNCHANGED <<hashVars, pngVars, adeVars, engineVars, parVars, mp3Vars, pdfVars, exifVars, dctVars, chunkVars, syncVars>>
SpecQim == InitQim /\ [][NextQim]_vars

\* MetadataWatermarker.extract on a PNG carrying the pieces of a payload
InitChunk == ChunkInit /\ HashIdle /\ PngIdle /\ AdeIdle /\ EngineIdle /\ ParIdle /\ Mp3Idle /\ PdfIdle /\ ExifIdle /\ DctIdle /\ QimIdle /\ SyncIdle
NextChunk ==
    \/ CmeExtractPieces /\ UNCHANGED <<hashVars, pngVars, adeVars, engineVars, parVars, mp3Vars, pdfVars, exifVars, dctVars, qimVars, syncVars>>
SpecChunk == InitChunk /\ [][NextChunk]_vars

\* One AudioWatermarker._find_sync_pattern on a bit string
InitSync == SyncInit /\ HashIdle /\ PngIdle /\ AdeIdle /\ EngineIdle /\ ParIdle /\ Mp3Idle /\ PdfIdle /\ ExifIdle /\ DctIdle /\ QimIdle /\ ChunkIdle
NextSync ==
    \/ FindSyncPattern /\ UNCHANGED <<hashVars, pngVars, adeVars, engineVars, parVars, mp3Vars, pdfVars, exifVars, dctVars, qimVars, chunkVars>>
SpecSync == InitSync /\ [][NextSync]_vars

(***************************************************************************)
(* ------------------------------ claims -------------------------------- *)
(***************************************************************************)
StableFields(p) == <<p.user_id, p.timestamp, p.metadata_hash, p.license>>

\* C1: the watermark hash is a function of user_id, timestamp, metadata_hash
\* and license only: two payloads that agree on these four fields (whatever
\* their content_hash) get the same hash, and two payloads that differ in one
\* of the four are hashed from different canonical strings.
C1_HashOfStableFieldsOnly ==
    (cur_hash # None /\ prev_hash # None) =>
        /\ StableFields(cur_hash.payload) = StableFields(prev_hash.payload)
              => cur_hash.hash = prev_hash.hash
        /\ StableFields(cur_hash.payload) # StableFields(prev_hash.payload)
              => cur_hash.hash_str # prev_hash.hash_str

\* Two hashed payloads that differ only in content_hash.
C1_Witness ==
    /\ cur_hash # None /\ prev_hash # None
    /\ StableFields(cur_hash.payload) = StableFields(prev_hash.payload)
    /\ cur_hash.payload.content_hash # prev_hash.payload.content_hash
    /\ cur_hash.hash = prev_hash.hash

\* The chunks of a PNG byte string read strictly: after the signature every
\* chunk is length + type + data + CRC; the result is the sequence of
\* [type, at, crc_ok] or Malformed when a chunk runs past the end.
Malformed == <<"malformed">>

RECURSIVE StrictChunks(_, _, _)
StrictChunks(bytes, pos, acc) ==
    IF pos = Len(bytes) THEN acc
    ELSE IF pos + 12 > Len(bytes) THEN Malformed
    ELSE LET length == FromU32BE(Slice(bytes, pos, pos + 4))
             type == Slice(bytes, pos + 4, pos + 8)
         IN  IF pos + 12 + length > Len(bytes) THEN Malformed
             ELSE LET data == Slice(bytes, pos + 8, pos + 8 + length)
                      crc == Slice(bytes, pos + 8 + length, pos + 12 + length)
                  IN  StrictChunks(bytes, pos + 12 + length,
                          Append(acc, [type |-> type, at |-> pos,
                                       crc_ok |-> crc = Crc32(type \o data)]))

WellFormedPng(bytes) ==
    /\ Slice(bytes, 0, 8) = PNG_SIGNATURE
    /\ LET chunks == StrictChunks(bytes, 8, <<>>)
       IN  /\ chunks # Malformed
           /\ chunks # <<>>
           /\ \A i \in DOMAIN chunks : chunks[i].crc_ok
           /\ chunks[Len(chunks)].type = IEND
           /\ \A i \in 1..(Len(chunks) - 1) : chunks[i].type # IEND

\* C3: CME extract applied to the output of CME PNG embed returns exactly
\* the embedded payload bytes (one chunk or several).
C3_PngRoundTrip ==
    png_extracted # None => (png_extracted.ok /\ png_extracted.data = png_data)

\* C4: the output of CME PNG embed is a well-formed chunk sequence, the
\* injected tEXt chunks start where the length field of IEND started in the
\* re-saved PNG, and the complete IEND chunk follows them as the last chunk.
C4_PngChunksBeforeIend ==
    (png_out # None /\ png_out.ok) =>
        LET saved == PilSavePng(png_image)
            iend_at == Len(saved) - 12
        IN  /\ WellFormedPng(png_out.data)
            /\ png_out.data = Slice(saved, 0, iend_at)
                              \o Flatten(WatermarkChunks(B64Encode(png_data)))
                              \o MakeChunk(IEND, <<>>)

\* C2: for non-MP3 audio, when embed succeeded and the carrier bits read back
\* unchanged, extract on the embed output returns exactly the payload bytes
\* embed serialized, with no extra leading or trailing bytes.
C2_AdeRoundTrip ==
    (ade_result # None /\ audio_out.ok) =>
        /\ ade_result.result.ok
        /\ ade_result.result.data = ade_call.data

\* C5: cursor hygiene: after every engine call on the caller's reader
\* (embed, extract or verify, any file type, returning or raising) the
\* reader's position is 0.
C5_ReaderAtZero == call # None => reader.pos = 0

\* ---- C6 ----

ImageExtractDone == call # None /\ call.op = "extract" /\ file_in.type = "image"

\* Whether the probe of codec e is made at all on this file
Probed(e) ==
    CASE e = "CME" -> CmeSupportsFormat(file_in.ext)
      [] e = "IFE" -> "iw" \in libs /\ IfeSupportsFormat(file_in.ext)
      [] e = "ILE" -> "stegano" \in libs

\* What the probe of codec e yields on the file of the call
Yield(e) ==
    CASE e = "CME" -> CmeExtractMark(file_in.format, call.marks.cme)
      [] e = "IFE" -> IfeExtractMark(call.marks.ife)
      [] e = "ILE" -> IleExtractMark(call.marks.ile)

ProbeLabel(e) ==
    CASE e = "CME" -> "Metadata" [] e = "IFE" -> "Invisible-watermark" [] e = "ILE" -> "Stegano"

IsPrefix(a, b) == Len(a) <= Len(b) /\ a = SubSeq(b, 1, Len(a))

\* C6: image extract probes CME, then IFE, then ILE (on an in-memory PNG
\* conversion when the input is not PNG); it returns the result of the first
\* probe that yields non-empty bytes without running later probes; a probe
\* that raises or yields empty bytes is skipped; only when all probes have
\* failed does it fail, with the reasons of the raising probes concatenated
\* in order.  A PNG without text chunks but with an intact IFE watermark is
\* recovered by the IFE probe.
C6_ExtractProbeOrder ==
    ImageExtractDone =>
        LET order == SelectSeq(<<"CME", "IFE", "ILE">>, Probed)
            run   == [i \in DOMAIN call.probes |-> call.probes[i].engine]
        IN  /\ IsPrefix(run, order)
            /\ \A i \in DOMAIN call.probes :
                  call.probes[i].input =
                      IF run[i] = "ILE" /\ file_in.format # "PNG" THEN "png_buffer" ELSE "file"
            /\ \A i \in 1..(Len(run) - 1) : ~NonEmpty(Yield(run[i]))
            /\ call.result.ok =>
                  /\ run # <<>>
                  /\ NonEmpty(call.result)
                  /\ call.result = Yield(run[Len(run)])
            /\ ~call.result.ok =>
                  /\ run = order
                  /\ \A i \in DOMAIN run : ~NonEmpty(Yield(run[i]))
                  /\ call.result.reasons =
                        Flatten([i \in DOMAIN run |->
                                    IF Yield(run[i]).ok THEN <<>>
                                    ELSE << <<ProbeLabel(run[i]), Yield(run[i]).err>> >>])
            /\ (file_in.ext = ".png" /\ call.marks.cme = "raise"
                   /\ call.marks.ife = "payload" /\ "iw" \in libs) =>
                  call.result = Ok(EngineText("IFE", "payload"))

\* A PNG without watermark text chunks and with an IFE watermark was probed
\* by CME and then IFE, and the IFE bytes were returned.
C6_Witness ==
    /\ ImageExtractDone
    /\ file_in.ext = ".png" /\ file_in.format = "PNG"
    /\ call.marks.cme = "raise" /\ call.marks.ife = "payload"
    /\ Len(call.probes) = 2
    /\ call.result.ok

\* ---- C7 ----

ImageEmbedDone == call # None /\ call.op = "embed" /\ file_in.type = "image"

\* The files produced by the layers of `tried` that succeeded before entry i
RECURSIVE InputOf(_, _)
InputOf(tried, i) ==
    IF i = 1 THEN Original(file_in.format)
    ELSE LET prev == tried[i - 1]
         IN  IF prev.ok
             THEN AddLayer(InputOf(tried, i - 1), prev.layer,
                           CASE prev.layer = "IFE" -> InputOf(tried, i - 1).format
                             [] prev.layer = "ILE" -> "PNG"
                             [] prev.layer = "CME" -> CmeFormat(InputOf(tried, i - 1).format))
             ELSE InputOf(tried, i - 1)

\* The layers tried are IFE (when available and supporting the extension),
\* ILE (only when redundant_watermarks > 1), CME, in this order; each takes
\* the output of the last layer that succeeded; a layer that fails is
\* skipped; when a layer succeeded the call returns the output of the last
\* one that did.
LayersApplied ==
    LET tried == call.tried
        want  == SelectSeq(<<"IFE", "ILE", "CME">>,
                           LAMBDA e : CASE e = "IFE" -> "iw" \in libs /\ IfeSupportsFormat(file_in.ext)
                                        [] e = "ILE" -> call.num_watermarks > 1 /\ "stegano" \in libs
                                        [] e = "CME" -> CmeSupportsFormat(file_in.ext))
    IN  /\ [i \in DOMAIN tried |-> tried[i].layer] = want
        /\ \A i \in DOMAIN tried :
              /\ tried[i].input = InputOf(tried, i)
              /\ tried[i].ok <=> tried[i].layer \notin call.fails
        /\ (\E i \in DOMAIN tried : tried[i].ok) =>
              /\ call.result.ok
              /\ call.result.data.bytes = InputOf(tried, Len(tried) + 1)
              /\ call.result.data.watermark_hash = generate_watermark_hash(EnginePayload("CME"))

NoLayerSucceeded == \A i \in DOMAIN call.tried : ~call.tried[i].ok

NoEmbedderAvailable == Raise("No image watermarking method available")

\* C7 as claimed: the layers are applied as above, and the call fails with
\* NoEmbedderAvailable exactly when no layer produced output.
C7_EmbedLayering ==
    ImageEmbedDone =>
        /\ LayersApplied
        /\ NoLayerSucceeded <=> call.result = NoEmbedderAvailable

\* C7 as amended: the layers are applied as above; when no layer produced
\* output and ILE is available and the extension is .png, ILE is applied
\* once more to the original file, whatever redundant_watermarks is, and the
\* call returns its output or fails with its error; in every other case
\* where no layer produced output the call fails with NoEmbedderAvailable.
C7_EmbedLayeringWithFallback ==
    ImageEmbedDone =>
        /\ LayersApplied
        /\ call.fallback <=>
              (NoLayerSucceeded /\ "stegano" \in libs /\ IleSupportsFormat(file_in.ext))
        /\ (NoLayerSucceeded /\ call.fallback) =>
              IF "ILE_fallback" \in call.fails
              THEN ~call.result.ok /\ call.result # NoEmbedderAvailable
              ELSE /\ call.result.ok
                   /\ call.result.data.bytes = AddLayer(Original(file_in.format), "ILE", "PNG")
        /\ (NoLayerSucceeded /\ ~call.fallback) <=> call.result = NoEmbedderAvailable

\* With redundant_watermarks = 1, IFE and CME failing on a .png file, the
\* last stegano call ran on the original file and its output was returned.
C7_Witness ==
    /\ ImageEmbedDone
    /\ call.num_watermarks = 1
    /\ Len(call.tried) = 2 /\ NoLayerSucceeded
    /\ call.fallback
    /\ call.result.ok

\* ---- C8 ----

VerifyDone == call # None /\ call.op = "verify"

\* C8: verify never raises: it returns a record for every input; every
\* failure record has verified, watermark_found and match false and no
\* watermark hash; a record with verified true has watermark_found true and
\* the watermark hash of the payload parsed from the bytes a codec
\* extracted.
C8_VerifyReturnsRecord ==
    VerifyDone =>
        /\ "raised" \notin DOMAIN call.record
        /\ {"verified", "watermark_found", "watermark_hash", "match"} \subseteq DOMAIN call.record
        /\ ~call.record.verified =>
              /\ ~call.record.watermark_found
              /\ call.record.watermark_hash = None
              /\ ~call.record.match
        /\ call.record.verified =>
              /\ call.record.watermark_found
              /\ \E e \in CodecsOf(file_in) :
                    /\ call.marks[e] = "payload"
                    /\ LET text == EngineText(CASE e = "cme" -> "CME" [] e = "ife" -> "IFE"
                                                [] e = "ile" -> "ILE" [] e = "ade" -> "ADE"
                                                [] e = "ame" -> "AME" [] e = "pdf" -> "PDF",
                                              "payload")
                       IN  call.record.watermark_hash =
                               generate_watermark_hash(ParsePayload(text).payload)

\* verify on an image whose IFE bytes are JSON but not a payload record, and
\* on which no other codec finds anything, returned a failure record.
C8_Witness ==
    /\ VerifyDone
    /\ file_in.type = "image" /\ "iw" \in libs /\ file_in.ext = ".png"
    /\ call.marks.ife = "list" /\ call.marks.ile = "raise"
    /\ ~call.record.verified

\* C9: two image embed calls with different payloads running in parallel on
\* the shared service are independent: the invisible-watermark layer of
\* each call's output carries that call's own payload, never the other's.
C9_ParallelEmbedsIndependent ==
    \A t \in Threads :
        (threads[t].pc = "done" /\ threads[t].has_ife)
            => threads[t].out = ThreadData(t)

\* C10: when MP3MetadataWatermarker.embed has returned or raised, on any
\* exit path, the temporary file it created no longer exists.
C10_TempFileDeleted ==
    mp3_pc = "returned" => ~mp3_tmp.exists

\* C11: for every payload whose base64 text has at most 1600 characters
\* (one COMM frame up to 800 characters, two beyond), extract on the bytes
\* embed returned gives back exactly the payload bytes.
C11_MteRoundTrip ==
    (mp3_extracted # None /\ mp3_extracted.dropped = {}
        /\ Len(B64Encode(mp3_in.watermark_data)) <= 1600)
        => mp3_extracted.result = Ok(mp3_in.watermark_data)

\* The frames the claim lists for a payload
C18_Written(data) ==
    {Frame("COMM", "WMPayload", Slice(B64Encode(data), 0, 800)),
     Frame("USLT", "WMHash", Slice(Utf8DecodeIgnore(data), 0, 500))}
    \cup (IF Len(B64Encode(data)) > 800
          THEN {Frame("COMM", "WMPayload_2", Slice(B64Encode(data), 800, 1600))}
          ELSE {})

\* C18: a successful MP3 embed adds or replaces exactly the frames COMM
\* WMPayload, USLT WMHash and (for a base64 text longer than 800) COMM
\* WMPayload_2, with the texts the claim gives; every other frame of the
\* input is in the output unchanged and the output has no further frame.
C18_MteFrames ==
    (mp3_pc = "returned" /\ mp3_result.ok) =>
        LET written == C18_Written(mp3_in.watermark_data)
            kept == {g \in mp3_in.frames :
                        ~\E f \in written : f.id = g.id /\ f.desc = g.desc}
        IN  mp3_result.data.frames = kept \cup written

\* An embed into a file that carries a Notes comment and the frames of an
\* earlier embed has returned.
C18_Witness ==
    /\ mp3_pc = "returned" /\ mp3_result.ok
    /\ \E g \in mp3_in.frames : g.desc = "Notes"
    /\ \E g \in mp3_in.frames : g.desc = "WMPayload"
    /\ Frame("COMM", "Notes", <<104, 105>>) \in mp3_result.data.frames

\* C12: for every PDF, with or without a title, and every payload whose
\* base64 text has at most 2000 characters, extract on embed's output
\* returns exactly the payload bytes, and it takes them from /WMHash
\* whatever /WMPayload and /Title hold (also when they are missing).
C12_PmeRoundTrip ==
    (pdf_extracted # None /\ "/WMHash" \notin pdf_extracted.dropped
        /\ Len(B64Encode(pdf_in.watermark_data)) <= 2000)
        => pdf_extracted.result = Ok(pdf_in.watermark_data)

\* Extract ran on the output of an embed into a PDF that had a title.
C12_Witness ==
    /\ pdf_extracted # None /\ pdf_extracted.dropped = {}
    /\ Entry("/Title", ReportTitle) \in pdf_in.pdf.info
    /\ pdf_in.watermark_data = MidData
    /\ pdf_extracted.result.ok

C14_PdfInfo ==
    (pdf_out # None /\ pdf_out.ok) =>
        LET b64 == B64Encode(pdf_in.watermark_data)
            old == pdf_in.pdf.info
            new == pdf_out.data.info
        IN  /\ \A e \in old : e.key \notin {"/WMHash", "/WMPayload", "/Title"} => e \in new
            /\ Entry("/WMHash", Slice(b64, 0, 2000)) \in new
            /\ Entry("/WMPayload", Slice(Utf8DecodeIgnore(pdf_in.watermark_data), 0, 1000)) \in new
            /\ \A e \in old : e.key = "/Title" =>
                   Entry("/Title", e.value \o <<32, 91>> \o Slice(b64, 0, 16) \o <<93>>) \in new
            /\ (~\E e \in old : e.key = "/Title") => Entry("/Title", Slice(b64, 0, 100)) \in new

\* C15: JPEG embed sets UserComment (37510) to the base64 text of the
\* payload cut to 2000 characters and ImageDescription (270) to "WM:" and
\* the first 500 characters, and leaves every other EXIF entry of the input
\* as it was; for a base64 text of at most 2000 characters extract on the
\* output returns exactly the payload bytes.
C15_JpegExif ==
    (exif_out # None /\ exif_in.image.format = "JPEG") =>
        LET b64 == B64Encode(exif_in.watermark_data)
        IN  /\ exif_out.ok
            /\ Entry(37510, Val("str", Slice(b64, 0, 2000))) \in exif_out.data.exif
            /\ Entry(270, Val("str", <<87, 77, 58>> \o Slice(b64, 0, 500))) \in exif_out.data.exif
            /\ \A e \in exif_in.image.exif : e.key \notin {37510, 270} => e \in exif_out.data.exif
            /\ \A e \in exif_out.data.exif :
                   e.key \notin {37510, 270} => e \in exif_in.image.exif
            /\ (exif_extracted # None /\ exif_extracted.dropped = {} /\ Len(b64) <= 2000)
                   => exif_extracted.result = Ok(exif_in.watermark_data)

\* Extract ran on the output of a JPEG embed into an image that had EXIF
\* entries of its own, a user comment among them.
C15_Witness ==
    /\ exif_extracted # None /\ exif_extracted.dropped = {}
    /\ exif_in.image.format = "JPEG"
    /\ \E e \in exif_in.image.exif : e.key = 37510
    /\ \E e \in exif_in.image.exif : e.key = 271
    /\ exif_in.watermark_data = MidData

\* C16: for a TIFF input embed writes the base64 text of the payload into
\* UserComment (37510) of the output, and extract on the output returns
\* the payload bytes.
C16_TiffUserComment ==
    (exif_out # None /\ exif_in.image.format = "TIFF") =>
        /\ exif_out.ok
        /\ Entry(37510, Val("str", Slice(B64Encode(exif_in.watermark_data), 0, 2000)))
               \in exif_out.data.exif
        /\ (exif_extracted # None /\ exif_extracted.dropped = {}
              /\ Len(B64Encode(exif_in.watermark_data)) <= 2000)
               => exif_extracted.result = Ok(exif_in.watermark_data)

\* C17: every text chunk of the input PNG, whatever its keyword, is in the
\* output of CME PNG embed as a tEXt chunk with the same keyword and text.
C17_PngTextPreserved ==
    (png_out # None /\ png_out.ok) =>
        \A i \in DOMAIN png_image.text :
            \E at \in 0..Len(png_out.data) :
                MatchAt(png_out.data,
                        MakeChunk(tEXt, png_image.text[i][1] \o <<0>> \o png_image.text[i][2]),
                        at)

\* C19: with blocks = ceil(samples / block_size) and coefs_per_block =
\* min(24, block_size / 2) - 8, _embed_in_dct succeeds on a frame of exactly
\* blocks * coefs_per_block bits, and on a frame one or more bits longer it
\* fails with "Audio too short" and produces no output.
C19_Capacity ==
    dct_out # None =>
        LET samples == dct_in.audio.samples
            blocks == CHOOSE n \in 0..samples :
                          n * 1024 >= samples /\ (n - 1) * 1024 < samples
            coefs_per_block == (IF 1024 \div 2 < 24 THEN 1024 \div 2 ELSE 24) - 8
            frame_bits == Len(dct_in.watermark_bits)
        IN  /\ frame_bits <= blocks * coefs_per_block
                => /\ dct_out.ok
                   /\ Slice(dct_out.wav.bits, 0, frame_bits) = dct_in.watermark_bits
            /\ frame_bits > blocks * coefs_per_block
                => dct_out = [ok |-> FALSE, err |-> "Audio too short for watermark"]

\* _embed_in_dct refused a frame one bit longer than the capacity of 8193
\* samples, nine blocks of 16 coefficients.
C19_Witness ==
    /\ dct_out # None /\ ~dct_out.ok
    /\ dct_in.audio.samples = 8193
    /\ Len(dct_in.watermark_bits) = 9 * 16 + 1

\* C20: extract_watermark on audio other than MP3 returns the bytes of the
\* first ADE probe that succeeds (caller's hash, none, empty string, '0'*64,
\* 'f'*64, all of which run the same extraction on the file); when no probe
\* succeeds, the audio libraries are missing or ADE does not support the
\* extension, the call ends in an error and never returns without bytes.
C20_AudioExtractProbes ==
    (call # None /\ call.op = "extract"
       /\ file_in.type = "audio" /\ file_in.ext # ".mp3") =>
        LET probe == CodecExtractMark("ADE", call.marks.ade)
        IN  IF "audio" \in libs /\ AdeSupportsFormat(file_in.ext) /\ probe.ok
            THEN call.result = Ok(probe.data)
            ELSE ~call.result.ok

\* C21: the bytes embed hands to the embedders are the textual
\* serialization of the five payload fields with the keys in lexicographic
\* order (content_hash, license, metadata_hash, timestamp, user_id), and
\* equal field values give equal bytes.
C21_PayloadBytesSorted ==
    cur_hash # None =>
        /\ cur_hash.watermark_data =
               JsonDumps(<< <<"content_hash", StrV(cur_hash.payload.content_hash)>>,
                            <<"license", StrV(cur_hash.payload.license)>>,
                            <<"metadata_hash", StrV(cur_hash.payload.metadata_hash)>>,
                            <<"timestamp", IntV(cur_hash.payload.timestamp)>>,
                            <<"user_id", StrV(cur_hash.payload.user_id)>> >>, FALSE)
        /\ (prev_hash # None /\ prev_hash.payload = cur_hash.payload)
               => prev_hash.watermark_data = cur_hash.watermark_data

\* C22: for every coefficient (zero and above 0.001 in magnitude included)
\* and every bit b, modulating the coefficient with b and decoding the
\* result with the same alpha gives b back.
C22_QimRoundTrip ==
    qim_bit # None => qim_bit.bit = qim_in.bit

\* C23: on a well-formed PNG whose tEXt chunks WMHash, WMHash1, ...,
\* WMHashK (any K, ten and more included; any stream order) carry the
\* pieces of the base64 text of a payload, CME PNG extract joins the texts
\* by ascending numeric suffix and returns the payload.
C23_PngChunkOrder ==
    chunks_result # None => chunks_result = Ok(chunks_in.data)

\* Number of bits of the window at position i (0-based) that agree with the
\* magic pattern 1011001011100101
WindowMatches(bits, i) ==
    Cardinality({j \in 1..16 :
        bits[i + j] = <<1, 0, 1, 1, 0, 0, 1, 0, 1, 1, 1, 0, 0, 1, 0, 1>>[j]})

\* C24: the sync finder returns exactly the positions among the first 2000
\* at which a full 16-bit window exists and agrees with the magic pattern
\* in at least 11 bits, by descending match count and, among equal counts,
\* ascending position.
C24_SyncPositions ==
    sync_out # None =>
        LET out == sync_out.positions
        IN  /\ \A i \in 0..1999 :
                   (i + 16 <= Len(sync_in) /\ WindowMatches(sync_in, i) >= 11)
                       <=> \E k \in DOMAIN out : out[k] = i
            /\ \A k \in DOMAIN out : out[k] \in 0..1999
            /\ \A j, k \in DOMAIN out :
                   j < k =>
                       \/ WindowMatches(sync_in, out[j]) > WindowMatches(sync_in, out[k])
                       \/ /\ WindowMatches(sync_in, out[j]) = WindowMatches(sync_in, out[k])
                          /\ out[j] < out[k]

\* C25: the frame embed writes for data of 1 to 65535 bytes is the 16-bit
\* magic pattern, the 16-bit big-endian length of data, the first 4 bytes of
\* MD5(data) and the bits of data, in that order; frame decode right after
\* the sync returns exactly data, and whatever it returns has a length in
\* 1..65535 and carries the checksum MD5[0:4] of the returned bytes.
C25_AdeFraming ==
    (audio_out # None /\ audio_out.ok) =>
        LET data == ade_call.data
            bits == audio_out.wav.bits
            frame == <<1, 0, 1, 1, 0, 0, 1, 0, 1, 1, 1, 0, 0, 1, 0, 1>>
                     \o UnpackBits(<<Len(data) \div 256, Len(data) % 256>>
                                   \o Slice(Md5(data), 0, 4) \o data)
            got == try_extract_at_position(bits, 16)
        IN  /\ Slice(bits, 0, Len(frame)) = frame
            /\ got = [data |-> data]
            /\ got # None =>
                   /\ Len(got.data) \in 1..65535
                   /\ Slice(bits, 16, 32) = UnpackBits(U16BE(Len(got.data)))
                   /\ Slice(bits, 32, 64) = UnpackBits(Slice(Md5(got.data), 0, 4))

\* C26: IFE extract never returns bytes that are not a serialized payload
\* (it fails instead), so that orchestrator extract on an image carrying an
\* ILE watermark only goes on to the ILE probe and returns the ILE bytes.
C26_IfeRejectsInvalid ==
    ImageExtractDone =>
        /\ (\E i \in DOMAIN call.probes : call.probes[i].engine = "IFE")
              => (Yield("IFE").ok
                    => Yield("IFE").data = PayloadText(EnginePayload("IFE")))
        /\ (/\ call.marks.cme \in {"raise", "empty"}
            /\ call.marks.ife # "payload"
            /\ call.marks.ile = "payload"
            /\ Probed("ILE"))
              => call.result = Ok(PayloadText(EnginePayload("ILE")))

ImageVerifyDone == call # None /\ call.op = "verify" /\ file_in.type = "image"

\* C27: whenever orchestrator extract on an image returns bytes that parse
\* as a payload record, verify on the same image (same codecs available)
\* reports watermark_found = true with the watermark hash of that payload.
C27_VerifyAgreesWithExtract ==
    ImageVerifyDone =>
        LET extracted == extract_image_multiple(slots, libs, file_in.ext, file_in.format,
                                                call.marks).result
        IN  (extracted.ok /\ ParsePayload(extracted.data).ok) =>
                /\ call.record.watermark_found
                /\ call.record.watermark_hash =
                       generate_watermark_hash(ParsePayload(extracted.data).payload)

\* What verify extracted from the file of the call, by file type
VerifyGot ==
    IF file_in.type = "image" THEN VerifyImageProbes(slots, libs, file_in, call.marks).got
    ELSE VerifyOtherProbes(extract_watermark(slots, libs, file_in, call.marks, None),
                           extract_watermark(slots, libs, file_in, call.marks, Str(<<>>)),
                           file_in).got

ImageEmbedOk ==
    call # None /\ call.op = "embed" /\ file_in.type = "image" /\ call.result.ok

C30_SlotSetOnce ==
    [][iw_slot.state # "None" => iw_slot' = iw_slot]_vars
====
